---- MODULE Spec2Model ----
(***************************************************************************)
(* A model of the devops agent: the bounded worker pool (WorkerPool) and   *)
(* the message-bus client (ConnectionManager).  Each component has its own *)
(* next-state relation and specification over the shared variable list.    *)
(***************************************************************************)
EXTENDS Integers, Sequences, FiniteSets, TLC

\* ------------------------------------------------------------------------
\* Bounds and program constants
\* ------------------------------------------------------------------------

\* NewWorkerPool(maxWorkers): the number of workers the pool is built with.
maxWorkers == 2

\* Number of distinct Submit calls (one task each) the environment makes.
MaxTasks == 3

\* make(chan func(), 100): capacity of the task queue.
QueueCap == 100

Workers == 1..maxWorkers

Tasks == 1..MaxTasks

NoTask == 0

\* The orders in which the members of a set can be inserted or iterated.
Perms(S) ==
    {f \in [1..Cardinality(S) -> S] : \A i, j \in 1..Cardinality(S) :
                                          f[i] = f[j] => i = j}

\* ------------------------------------------------------------------------
\* State
\* ------------------------------------------------------------------------
VARIABLES
    \* WorkerPool
    wpRunning,      \* wp.running
    taskQueue,      \* buffered content of wp.taskQueue, oldest first
    queueClosed,    \* close(wp.taskQueue) has happened
    wgCount,        \* counter of wp.wg
    wpc,            \* position of each worker goroutine
    wtask,          \* the task a worker is inside, NoTask otherwise
    executing,      \* tasks whose body is running
    done,           \* tasks whose body returned
    spc,            \* position of each Submit call
    afterStop,      \* Submit calls invoked after Stop() had returned
    mainPc,         \* position of the goroutine that calls Start() and Stop()
    queuedAtStop,   \* tasks enqueued at the moment Stop() was called
    crashed,        \* the process died of an unrecovered panic
    nWorkers,       \* wp.maxWorkers, the size the pool is built with
    priorSent,      \* per Submit call, until its task ends: the calls that had
                    \* returned when it began
    runningAtStop,  \* tasks whose body was running when Stop() was called
    \* ConnectionManager, order of the bindings
    regOrder,       \* the queues in the order BindQueue first registered them
    replayed,       \* the queues in the order the last connect rebound them
    connectRet,     \* what the last connect() to return gave its caller
    \* ConnectionManager
    cmRunning,      \* cm.running
    cmConn,         \* cm.conn: a connection id, or Nil
    cmCh,           \* cm.ch: the channel of a connection id, or Nil
    mu,             \* holder of cm.mu, or Free
    reconnecting,   \* cm.reconnecting
    messageHandlers,\* cm.messageHandlers: queue name -> QueueBinding or NoBinding
    pc,             \* position of every goroutine that may call connect()
    stopPc,         \* position of the goroutine that calls Stop()
    \* the bus, as the client library shows it
    connOpen,       \* connections that are open
    chOpen,         \* connections whose channel is open
    bound,          \* <<conn, queue, exchange, routingKey>> bindings in force
    consumers,      \* consumption loops: <<conn, queue, handler, n>>
    nextConn,       \* id of the next connection a dial creates
    nextRetry,      \* id of the next scheduleReconnect goroutine
    nBinds,         \* number of BindQueue calls made
    \* history
    registered,     \* every <<queue, exchange, key, handler>> passed to BindQueue
    regAtLoss,      \* value of registered when the client's connection was last lost
    overlapped,     \* callers that invoked connect() while another one was inside it
    \* calls of Publish, DeclareExchange and BindQueue
    lastOp,         \* the last call that returned: its name, cm.ch as it found it, its result
    nCalls,         \* number of Publish and DeclareExchange calls made
    busPublished,   \* <<exchange, routingKey, body>> handed to the bus, oldest first
    declared,       \* exchanges declared on the bus
    \* one consumption loop of bindQueueInternal
    deliveries,     \* content of the delivery channel msg, oldest first
    nDelivered,     \* number of deliveries the bus has made on it
    deliveryClosed, \* the delivery channel is closed (channel or connection gone)
    cpc,            \* position of the loop's goroutine
    curMsg,         \* the delivery the loop is handling
    events,         \* handler invocations, handler returns and acks, in order
    \* command authorization
    cmdLine,        \* the command argument, a sequence of characters
    cfgCommands,    \* config.AllowedCommands
    cfgDirs,        \* config.AllowedDirectories
    retInternal,    \* what isCommandAllowed of package internal returned
    retRoot,        \* what isCommandAllowed of the root package returned
    \* one runCommand call
    rpc,            \* position of the goroutine inside runCommand
    rTimeout,       \* timeout in force, in seconds
    proc,           \* the /bin/sh process: none, running, exited, signalled, killed
    procStatus,     \* its exit status once exited
    pipeOut,        \* stdout chunks written by the process, not yet copied
    pipeErr,        \* stderr chunks written by the process, not yet copied
    stdoutBuf,      \* content of the stdout strings.Builder
    stderrBuf,      \* content of the stderr strings.Builder
    nChunks,        \* number of chunks the process has written
    waitPc,         \* position of the goroutine that calls cmd.Wait()
    doneCh,         \* content of the channel done
    timerFired,     \* the channel of time.After holds its value
    killCalled,     \* cmd.Process.Kill() was called
    runRet,         \* what runCommand returned
    rArg,           \* the timeout argument of the runCommand call
    timerDur,       \* the duration given to time.After, NoTimer before,
    \* Execute calls
    ex,             \* each Execute call: position, payload, cmdMsg, run result, return value
    execClient,     \* e.connManager != nil
    attempts,       \* the Publish calls made by sendResult, oldest first
    \* message signer
    sgEnabled,      \* RSASigner.enabled
    sgPrivateKey,   \* RSASigner.privateKey: the key pair it belongs to, or none
    sgPublicKey,    \* RSASigner.publicKey: the key pair it belongs to, or none
    signArgs,       \* the hostname given to RSAMessageSigner.Sign
    signParams,     \* the params RSAMessageSigner.Sign handed to RSASigner.Sign
    signRet,        \* what RSAMessageSigner.Sign returned
    verifyArgs,     \* hostname, signature and timestamp given to Verify
    verifyRet,      \* what RSAMessageSigner.Verify returned
    \* buildSortedJSON calls
    cjPairs,        \* the key/value pairs of the parameter set
    cjCalls         \* each call: construction order, iteration order, result

poolVars == <<wpRunning, taskQueue, queueClosed, wgCount, wpc, wtask, executing,
              done, spc, afterStop, mainPc, queuedAtStop, crashed, nWorkers,
              priorSent, runningAtStop>>

busVars == <<cmRunning, cmConn, cmCh, mu, reconnecting, messageHandlers, pc,
             stopPc, connOpen, chOpen, bound, consumers, nextConn, nextRetry,
             nBinds, registered, regAtLoss, overlapped>>

opVars == <<lastOp, nCalls, busPublished, declared>>

orderVars == <<regOrder, replayed>>

\* What the actions of one component leave alone.
consVars == <<deliveries, nDelivered, deliveryClosed, cpc, curMsg, events>>

authVars == <<cmdLine, cfgCommands, cfgDirs, retInternal, retRoot>>

runVars == <<rpc, rTimeout, proc, procStatus, pipeOut, pipeErr, stdoutBuf,
             stderrBuf, nChunks, waitPc, doneCh, timerFired, killCalled, runRet,
             rArg, timerDur>>

execVars == <<ex, execClient, attempts>>

signVars == <<sgEnabled, sgPrivateKey, sgPublicKey, signArgs, signParams,
              signRet, verifyArgs, verifyRet>>

canonVars == <<cjPairs, cjCalls>>

nonPoolVars == <<busVars, opVars, consVars, authVars, runVars, execVars,
    signVars, canonVars,
    orderVars, connectRet>>

nonClientVars == <<poolVars, consVars, authVars, runVars, execVars,
    signVars, canonVars>>

nonBusVars == <<nonClientVars, orderVars, connectRet>>

nonConsVars == <<poolVars, busVars, opVars, authVars, runVars, execVars,
    signVars, canonVars,
    orderVars, connectRet>>

nonAuthVars == <<poolVars, busVars, opVars, consVars, runVars, execVars,
    signVars, canonVars,
    orderVars, connectRet>>

nonRunVars == <<poolVars, busVars, opVars, consVars, authVars, execVars,
    signVars, canonVars,
    orderVars, connectRet>>

nonSignVars == <<poolVars, busVars, opVars, consVars, authVars, runVars,
    execVars, canonVars,
    orderVars, connectRet>>

nonCanonVars == <<poolVars, busVars, opVars, consVars, authVars, runVars,
    execVars, signVars,
    orderVars, connectRet>>

nonExecVars == <<poolVars, busVars, opVars, consVars, authVars, runVars,
    signVars, canonVars,
    orderVars, connectRet>>

vars == <<poolVars, busVars, opVars, consVars, authVars, runVars, execVars,
    signVars, canonVars,
    orderVars, connectRet>>

\* ------------------------------------------------------------------------
\* WorkerPool
\* ------------------------------------------------------------------------

\* NewWorkerPool(n): running is false, the queue is empty and open, no
\* worker.
NewWorkerPool(n) ==
    /\ wpRunning = FALSE
    /\ taskQueue = <<>>
    /\ queueClosed = FALSE
    /\ wgCount = 0
    /\ wpc = [w \in Workers |-> "none"]
    /\ wtask = [w \in Workers |-> NoTask]
    /\ executing = {}
    /\ done = {}
    /\ spc = [t \in Tasks |-> "idle"]
    /\ afterStop = [t \in Tasks |-> FALSE]
    /\ mainPc = "new"
    /\ queuedAtStop = {}
    /\ crashed = FALSE
    /\ nWorkers = n
    /\ priorSent = [t \in Tasks |-> {}]
    /\ runningAtStop = {}

InitPool == NewWorkerPool(maxWorkers)

\* A faulty Start: a pool of size zero gets one worker all the same.
PoolStartAtLeastOne ==
    /\ ~crashed
    /\ UNCHANGED nonPoolVars
    /\ UNCHANGED <<nWorkers, priorSent, runningAtStop>>
    /\ mainPc = "new"
    /\ wpRunning' = TRUE
    /\ wgCount' = wgCount + (IF nWorkers = 0 THEN 1 ELSE nWorkers)
    /\ wpc' = [w \in Workers |->
                 IF w <= nWorkers \/ w = 1 THEN "check" ELSE "none"]
    /\ mainPc' = "started"
    /\ UNCHANGED <<taskQueue, queueClosed, wtask, executing, done, spc,
                   afterStop, queuedAtStop, crashed>>

\* Start: running = true, then wg.Add(1) and go wp.worker() wp.maxWorkers
\* times.
PoolStart ==
    /\ ~crashed
    /\ UNCHANGED nonPoolVars
    /\ UNCHANGED <<nWorkers, priorSent, runningAtStop>>
    /\ mainPc = "new"
    /\ wpRunning' = TRUE
    /\ wgCount' = wgCount + nWorkers
    /\ wpc' = [w \in Workers |-> IF w <= nWorkers THEN "check" ELSE "none"]
    /\ mainPc' = "started"
    /\ UNCHANGED <<taskQueue, queueClosed, wtask, executing, done, spc,
                   afterStop, queuedAtStop, crashed>>

\* Stop, first statement: wp.running = false.
PoolStopFlag ==
    /\ ~crashed
    /\ UNCHANGED nonPoolVars
    /\ UNCHANGED <<nWorkers, priorSent>>
    /\ runningAtStop' = executing
    /\ mainPc = "started"
    /\ wpRunning' = FALSE
    /\ mainPc' = "stop_close"
    /\ queuedAtStop' = {t \in Tasks : spc[t] = "sent"}
    /\ UNCHANGED <<taskQueue, queueClosed, wgCount, wpc, wtask, executing, done,
                   spc, afterStop, crashed>>

\* Stop, second statement: close(wp.taskQueue).
PoolStopClose ==
    /\ ~crashed
    /\ UNCHANGED nonPoolVars
    /\ UNCHANGED <<nWorkers, priorSent, runningAtStop>>
    /\ mainPc = "stop_close"
    /\ queueClosed' = TRUE
    /\ mainPc' = "stop_wait"
    /\ UNCHANGED <<wpRunning, taskQueue, wgCount, wpc, wtask, executing, done,
                   spc, afterStop, queuedAtStop, crashed>>

\* Stop, third statement: wp.wg.Wait() returns once the counter is zero.
PoolStopWait ==
    /\ ~crashed
    /\ UNCHANGED nonPoolVars
    /\ UNCHANGED <<nWorkers, priorSent, runningAtStop>>
    /\ mainPc = "stop_wait"
    /\ wgCount = 0
    /\ mainPc' = "stopped"
    /\ UNCHANGED <<wpRunning, taskQueue, queueClosed, wgCount, wpc, wtask,
                   executing, done, spc, afterStop, queuedAtStop,
                   crashed>>

\* Faulty variant of SubmitCheck: a Submit that skips the running test.
SubmitCheckNoTest(t) ==
    /\ ~crashed
    /\ UNCHANGED nonPoolVars
    /\ UNCHANGED <<nWorkers, priorSent, runningAtStop>>
    /\ spc[t] = "idle"
    /\ afterStop' = [afterStop EXCEPT ![t] = (mainPc = "stopped")]
    /\ spc' = [spc EXCEPT ![t] = "sending"]
    /\ UNCHANGED <<wpRunning, taskQueue, queueClosed, wgCount, wpc, wtask,
                   executing, done, mainPc, queuedAtStop, crashed>>

\* Submit, the test: if !wp.running { return }.
SubmitTest(t) ==
    /\ ~crashed
    /\ UNCHANGED nonPoolVars
    /\ UNCHANGED <<nWorkers, runningAtStop>>
    /\ spc[t] = "idle"
    /\ afterStop' = [afterStop EXCEPT ![t] = (mainPc = "stopped")]
    /\ spc' = [spc EXCEPT ![t] = IF wpRunning THEN "sending" ELSE "dropped"]
    /\ UNCHANGED <<wpRunning, taskQueue, queueClosed, wgCount, wpc, wtask,
                   executing, done, mainPc, queuedAtStop, crashed>>

SubmitCheck(t) ==
    /\ SubmitTest(t)
    /\ UNCHANGED priorSent

\* The same step with the order of the calls observed: the call notes
\* which Submit calls had returned when it began.
SubmitCheckObserved(t) ==
    /\ SubmitTest(t)
    /\ priorSent' = [priorSent EXCEPT ![t] =
                         IF wpRunning THEN {a \in Tasks : spc[a] = "sent"}
                                      ELSE {}]

\* Submit, the send: wp.taskQueue <- task.  A send on a closed channel panics;
\* a send on a full channel blocks.
SubmitSend(t) ==
    /\ ~crashed
    /\ UNCHANGED nonPoolVars
    /\ UNCHANGED <<nWorkers, priorSent, runningAtStop>>
    /\ spc[t] = "sending"
    /\ IF queueClosed
         THEN /\ crashed' = TRUE
              /\ spc' = [spc EXCEPT ![t] = "panicked"]
              /\ UNCHANGED taskQueue
         ELSE /\ Len(taskQueue) < QueueCap
              /\ taskQueue' = Append(taskQueue, t)
              /\ spc' = [spc EXCEPT ![t] = "sent"]
              /\ UNCHANGED crashed
    /\ UNCHANGED <<wpRunning, queueClosed, wgCount, wpc, wtask, executing, done,
                   afterStop, mainPc, queuedAtStop>>

\* worker returns: the deferred wp.wg.Done() runs.
WorkerExit(w) ==
    /\ wpc' = [wpc EXCEPT ![w] = "exited"]
    /\ wgCount' = wgCount - 1

\* worker, the loop test: for wp.running { ... }.
WorkerCheck(w) ==
    /\ ~crashed
    /\ UNCHANGED nonPoolVars
    /\ UNCHANGED <<nWorkers, priorSent, runningAtStop>>
    /\ wpc[w] = "check"
    /\ IF wpRunning
         THEN /\ wpc' = [wpc EXCEPT ![w] = "recv"]
              /\ UNCHANGED wgCount
         ELSE WorkerExit(w)
    /\ UNCHANGED <<wpRunning, taskQueue, queueClosed, wtask, executing, done,
                   spc, afterStop, mainPc, queuedAtStop, crashed>>

\* Faulty variant of WorkerRecv: a worker that starts the task in a goroutine
\* of its own (go task()) and goes back to its loop at once.
WorkerRecvGo(w) ==
    /\ ~crashed
    /\ UNCHANGED nonPoolVars
    /\ UNCHANGED <<nWorkers, priorSent, runningAtStop>>
    /\ wpc[w] = "recv"
    /\ Len(taskQueue) > 0
    /\ taskQueue' = Tail(taskQueue)
    /\ executing' = executing \cup {Head(taskQueue)}
    /\ wpc' = [wpc EXCEPT ![w] = "check"]
    /\ UNCHANGED <<wpRunning, queueClosed, wgCount, wtask, done, spc,
                   afterStop, mainPc, queuedAtStop, crashed>>

\* Faulty variant of WorkerRecv: the receive hands out the task that was
\* queued last.
WorkerRecvLast(w) ==
    /\ ~crashed
    /\ UNCHANGED nonPoolVars
    /\ UNCHANGED <<nWorkers, priorSent, runningAtStop>>
    /\ wpc[w] = "recv"
    /\ IF Len(taskQueue) > 0
         THEN /\ taskQueue' = SubSeq(taskQueue, 1, Len(taskQueue) - 1)
              /\ wtask' = [wtask EXCEPT ![w] = taskQueue[Len(taskQueue)]]
              /\ executing' = executing \cup {taskQueue[Len(taskQueue)]}
              /\ wpc' = [wpc EXCEPT ![w] = "task"]
              /\ UNCHANGED wgCount
         ELSE /\ queueClosed
              /\ WorkerExit(w)
              /\ UNCHANGED <<taskQueue, wtask, executing>>
    /\ UNCHANGED <<wpRunning, queueClosed, done, spc, afterStop,
                   mainPc, queuedAtStop, crashed>>

\* worker, the receive: task, ok := <-wp.taskQueue; if !ok { return }; task().
\* A closed channel still hands out what it buffered before it reports !ok.
WorkerRecv(w) ==
    /\ ~crashed
    /\ UNCHANGED nonPoolVars
    /\ UNCHANGED <<nWorkers, priorSent, runningAtStop>>
    /\ wpc[w] = "recv"
    /\ IF Len(taskQueue) > 0
         THEN /\ taskQueue' = Tail(taskQueue)
              /\ wtask' = [wtask EXCEPT ![w] = Head(taskQueue)]
              /\ executing' = executing \cup {Head(taskQueue)}
              /\ wpc' = [wpc EXCEPT ![w] = "task"]
              /\ UNCHANGED wgCount
         ELSE /\ queueClosed
              /\ WorkerExit(w)
              /\ UNCHANGED <<taskQueue, wtask, executing>>
    /\ UNCHANGED <<wpRunning, queueClosed, done, spc, afterStop,
                   mainPc, queuedAtStop, crashed>>

\* task() returns normally: the worker goes back to its loop test.
TaskReturn(w) ==
    /\ ~crashed
    /\ UNCHANGED nonPoolVars
    /\ UNCHANGED <<nWorkers, runningAtStop>>
    /\ wpc[w] = "task"
    /\ priorSent' = [t \in Tasks |-> IF t = wtask[w] THEN {} ELSE priorSent[t]]
    /\ executing' = executing \ {wtask[w]}
    /\ done' = done \cup {wtask[w]}
    /\ wtask' = [wtask EXCEPT ![w] = NoTask]
    /\ wpc' = [wpc EXCEPT ![w] = "check"]
    /\ UNCHANGED <<wpRunning, taskQueue, queueClosed, wgCount, spc,
                   afterStop, mainPc, queuedAtStop, crashed>>

\* task() panics: worker has no recover, so the panic unwinds the worker
\* goroutine (running its deferred wg.Done) and ends the process.
TaskPanic(w) ==
    /\ ~crashed
    /\ UNCHANGED nonPoolVars
    /\ UNCHANGED <<nWorkers, runningAtStop>>
    /\ wpc[w] = "task"
    /\ priorSent' = [t \in Tasks |-> IF t = wtask[w] THEN {} ELSE priorSent[t]]
    /\ executing' = executing \ {wtask[w]}
    /\ wpc' = [wpc EXCEPT ![w] = "panicked"]
    /\ wgCount' = wgCount - 1
    /\ crashed' = TRUE
    /\ UNCHANGED <<wpRunning, taskQueue, queueClosed, wtask, done, spc,
                   afterStop, mainPc, queuedAtStop>>

NextPool ==
    \/ PoolStart
    \/ PoolStopFlag
    \/ PoolStopClose
    \/ PoolStopWait
    \/ \E t \in Tasks : SubmitCheck(t)
    \/ \E t \in Tasks : SubmitSend(t)
    \/ \E w \in Workers : WorkerCheck(w)
    \/ \E w \in Workers : WorkerRecv(w)
    \/ \E w \in Workers : TaskReturn(w)
    \/ \E w \in Workers : TaskPanic(w)

\* The running pool with the order of the Submit calls observed: Start,
\* Submit calls, and workers that take tasks and see them return.
NextPoolOrder ==
    \/ PoolStart
    \/ \E t \in Tasks : SubmitCheckObserved(t)
    \/ \E t \in Tasks : SubmitSend(t)
    \/ \E w \in Workers : WorkerCheck(w)
    \/ \E w \in Workers : WorkerRecv(w)
    \/ \E w \in Workers : TaskReturn(w)

\* ------------------------------------------------------------------------
\* ConnectionManager
\* ------------------------------------------------------------------------

\* Number of Start() calls the environment makes.
MaxStarts == 2

\* Number of connections that dial successfully.
MaxConns == 2

\* Number of connect attempts that fail and schedule a retry.
MaxRetries == 1

\* Number of BindQueue calls the environment makes.
MaxBinds == 2

Nil == 0

Conns == 1..MaxConns

Queues == {"q1", "q2"}

Exchanges == {"sys_cmd_exchange"}

RoutingKeys == {"k1", "k2"}

Handlers == {"handleMessage"}

\* The value connect() returns, and whether the client then holds a
\* connection and a channel that are open.
Returned(err, conn, ch, open, chopen) ==
    [err |-> err, live |-> conn # Nil /\ conn \in open /\ ch \in chopen]

NoConnectRet == [err |-> "none", live |-> FALSE]

NoBinding == [ExchangeName |-> "", RoutingKey |-> "", Handler |-> ""]

\* The goroutines that may call connect(): the callers of Start, the
\* close-notification goroutine of each connection, and the timer callback of
\* each scheduleReconnect.
Callers ==
    ({"start"} \X (1..MaxStarts)) \cup ({"notify"} \X Conns)
        \cup ({"retry"} \X (1..MaxRetries))

Free == <<"free", 0>>

StopCaller == <<"stop", 0>>

\* NewConnectionManager: no connection, not running, no binding registered.
InitBus ==
    /\ cmRunning = FALSE
    /\ cmConn = Nil
    /\ cmCh = Nil
    /\ mu = Free
    /\ reconnecting = FALSE
    /\ messageHandlers = [q \in Queues |-> NoBinding]
    /\ pc = [p \in Callers |-> IF p[1] = "start" THEN "idle" ELSE "none"]
    /\ stopPc = "idle"
    /\ connOpen = {}
    /\ chOpen = {}
    /\ bound = {}
    /\ consumers = {}
    /\ nextConn = 1
    /\ nextRetry = 1
    /\ nBinds = 0
    /\ registered = {}
    /\ regAtLoss = {}
    /\ overlapped = {}
    /\ regOrder = << >>
    /\ replayed = << >>
    /\ connectRet = NoConnectRet

\* An exclusive queue belongs to the connection that declared it, as long as
\* that connection is open.
QueueHeldElsewhere(c, q) ==
    \E b \in bound : b[1] # c /\ b[2] = q /\ b[1] \in connOpen

\* bindQueueInternal succeeds when QueueDeclare, QueueBind and Consume all do:
\* the channel is open and the exclusive queue is not another connection's.
\* (The broker also closes the channel on which a declare was refused; the
\* model keeps only the refusal.)
BindSucceeds(c, q) ==
    /\ c \in chOpen
    /\ ~QueueHeldElsewhere(c, q)

\* The consumption loop bindQueueInternal starts on the queue
\* (go func() { for msg := range msg { handler(msg.Body); msg.Ack(false) } }),
\* numbered among the loops that consume the queue on that connection.
NewConsumer(c, q, h, cs) ==
    <<c, q, h, 1 + Cardinality({x \in cs : x[1] = c /\ x[2] = q})>>

\* What the connection loses when it, or its channel, closes: the exclusive
\* auto-delete queues with their bindings, and the deliveries of its consumers.
DropConn(c, S) == {x \in S : x[1] # c}

\* A caller reaches the call of connect().
InvokeConnect(p) ==
    /\ pc' = [pc EXCEPT ![p] = "connect"]
    /\ overlapped' = IF \E q \in Callers : q # p /\ pc[q] = "dial"
                       THEN overlapped \cup {p}
                       ELSE overlapped

\* Start: cm.running = true; return cm.connect().
CMStart(p) ==
    /\ p[1] = "start"
    /\ pc[p] = "idle"
    /\ stopPc = "idle"
    /\ cmRunning' = TRUE
    /\ InvokeConnect(p)
    /\ UNCHANGED nonBusVars
    /\ UNCHANGED opVars
    /\ UNCHANGED <<cmConn, cmCh, mu, reconnecting, messageHandlers, stopPc,
                   connOpen, chOpen, bound, consumers, nextConn, nextRetry,
                   nBinds, registered, regAtLoss>>

\* connect, entry: cm.mu.Lock(); if cm.reconnecting { return nil };
\* cm.reconnecting = true.
ConnectLock(p) ==
    /\ pc[p] = "connect"
    /\ mu = Free
    /\ IF reconnecting
         THEN /\ pc' = [pc EXCEPT ![p] = "done"]
              /\ UNCHANGED <<mu, reconnecting>>
         ELSE /\ mu' = p
              /\ reconnecting' = TRUE
              /\ pc' = [pc EXCEPT ![p] = "dial"]
    /\ connectRet' = IF reconnecting
                      THEN Returned("nil", cmConn, cmCh, connOpen, chOpen)
                      ELSE connectRet
    /\ UNCHANGED orderVars
    /\ UNCHANGED nonClientVars
    /\ UNCHANGED opVars
    /\ UNCHANGED <<cmRunning, cmConn, cmCh, messageHandlers, stopPc, connOpen,
                   chOpen, bound, consumers, nextConn, nextRetry, nBinds,
                   registered, regAtLoss, overlapped>>

\* The deferred calls of connect: cm.reconnecting = false, cm.mu.Unlock().
ConnectReturn(p) ==
    /\ reconnecting' = FALSE
    /\ mu' = Free

\* go cm.scheduleReconnect(): a new goroutine, about to test cm.running.
SpawnRetry(p) ==
    /\ nextRetry <= MaxRetries
    /\ pc' = [pc EXCEPT ![p] = "done", ![<<"retry", nextRetry>>] = "sched"]
    /\ nextRetry' = nextRetry + 1

\* connect, amqp091.Dial fails: go cm.scheduleReconnect(); return err.
ConnectDialFail(p) ==
    /\ pc[p] = "dial"
    /\ SpawnRetry(p)
    /\ ConnectReturn(p)
    /\ connectRet' = Returned("error", cmConn, cmCh, connOpen, chOpen)
    /\ UNCHANGED orderVars
    /\ UNCHANGED nonClientVars
    /\ UNCHANGED opVars
    /\ UNCHANGED <<cmRunning, cmConn, cmCh, messageHandlers, stopPc, connOpen,
                   chOpen, bound, consumers, nextConn, nBinds, registered,
                   regAtLoss, overlapped>>

\* connect, conn.Channel() fails: err := conn.Close(); if that fails too,
\* return err at once; otherwise go cm.scheduleReconnect() and return err.
\* The err returned is the one `err := conn.Close()` declares in the block,
\* which is nil when the close succeeded.  The connection that was dialed is
\* closed either way and is given no id.
ConnectChannelFail(p, closeFails) ==
    /\ pc[p] = "dial"
    /\ IF closeFails
         THEN /\ pc' = [pc EXCEPT ![p] = "done"]
              /\ UNCHANGED nextRetry
         ELSE SpawnRetry(p)
    /\ ConnectReturn(p)
    /\ connectRet' = Returned(IF closeFails THEN "error" ELSE "nil",
                               cmConn, cmCh, connOpen, chOpen)
    /\ UNCHANGED orderVars
    /\ UNCHANGED nonClientVars
    /\ UNCHANGED opVars
    /\ UNCHANGED <<cmRunning, cmConn, cmCh, messageHandlers, stopPc, connOpen,
                   chOpen, bound, consumers, nextConn, nBinds, registered,
                   regAtLoss, overlapped>>

\* connect, dial and channel succeed: the close-notification goroutine is
\* started, cm.conn and cm.ch are stored, and every entry of
\* cm.messageHandlers goes through bindQueueInternal (a failure is logged).
ConnectSuccess(p) ==
    /\ pc[p] = "dial"
    /\ nextConn <= MaxConns
    /\ LET c == nextConn IN
        /\ nextConn' = c + 1
        /\ connOpen' = connOpen \cup {c}
        /\ chOpen' = chOpen \cup {c}
        /\ pc' = [pc EXCEPT ![p] = "done", ![<<"notify", c>>] = "wait"]
        /\ cmConn' = c
        /\ cmCh' = c
        /\ LET qs == {q \in Queues : /\ messageHandlers[q] # NoBinding
                                      /\ ~QueueHeldElsewhere(c, q)} IN
            /\ bound' = bound \cup
                   {<<c, q, messageHandlers[q].ExchangeName,
                      messageHandlers[q].RoutingKey>> : q \in qs}
            /\ consumers' = consumers \cup
                   {NewConsumer(c, q, messageHandlers[q].Handler, consumers) :
                        q \in qs}
    /\ ConnectReturn(p)
    /\ \E iter \in Perms({q \in Queues : messageHandlers[q] # NoBinding}) :
          replayed' = iter
    /\ UNCHANGED regOrder
    /\ connectRet' = Returned("nil", cmConn', cmCh', connOpen', chOpen')
    /\ UNCHANGED nonClientVars
    /\ UNCHANGED opVars
    /\ UNCHANGED <<cmRunning, messageHandlers, stopPc, nextRetry, nBinds,
                   registered, regAtLoss, overlapped>>

\* The connection closes under the client: the network, or the broker.
ConnLost(c) ==
    /\ c \in connOpen
    /\ connOpen' = connOpen \ {c}
    /\ chOpen' = chOpen \ {c}
    /\ bound' = DropConn(c, bound)
    /\ consumers' = DropConn(c, consumers)
    /\ regAtLoss' = IF c = cmConn THEN registered ELSE regAtLoss
    /\ UNCHANGED nonBusVars
    /\ UNCHANGED opVars
    /\ UNCHANGED <<cmRunning, cmConn, cmCh, mu, reconnecting, messageHandlers,
                   pc, stopPc, nextConn, nextRetry, nBinds, registered,
                   overlapped>>

\* The close-notification goroutine wakes (<-conn.NotifyClose(...)):
\* cm.mu.Lock(); cm.conn = nil; cm.ch = nil; cm.mu.Unlock().
NotifyClear(p) ==
    /\ p[1] = "notify"
    /\ pc[p] = "wait"
    /\ p[2] \notin connOpen
    /\ mu = Free
    /\ cmConn' = Nil
    /\ cmCh' = Nil
    /\ pc' = [pc EXCEPT ![p] = "check"]
    /\ UNCHANGED nonBusVars
    /\ UNCHANGED opVars
    /\ UNCHANGED <<cmRunning, mu, reconnecting, messageHandlers, stopPc,
                   connOpen, chOpen, bound, consumers, nextConn, nextRetry,
                   nBinds, registered, regAtLoss, overlapped>>

\* The close-notification goroutine, after the unlock:
\* if cm.running { cm.connect() }.
NotifyCheck(p) ==
    /\ p[1] = "notify"
    /\ pc[p] = "check"
    /\ IF cmRunning
         THEN InvokeConnect(p)
         ELSE /\ pc' = [pc EXCEPT ![p] = "done"]
              /\ UNCHANGED overlapped
    /\ UNCHANGED nonBusVars
    /\ UNCHANGED opVars
    /\ UNCHANGED <<cmRunning, cmConn, cmCh, mu, reconnecting, messageHandlers,
                   stopPc, connOpen, chOpen, bound, consumers, nextConn,
                   nextRetry, nBinds, registered, regAtLoss>>

\* scheduleReconnect: if !cm.running { return }; time.AfterFunc(5s, ...).
scheduleReconnect(p) ==
    /\ p[1] = "retry"
    /\ pc[p] = "sched"
    /\ pc' = [pc EXCEPT ![p] = IF cmRunning THEN "timer" ELSE "done"]
    /\ UNCHANGED nonBusVars
    /\ UNCHANGED opVars
    /\ UNCHANGED <<cmRunning, cmConn, cmCh, mu, reconnecting, messageHandlers,
                   stopPc, connOpen, chOpen, bound, consumers, nextConn,
                   nextRetry, nBinds, registered, regAtLoss, overlapped>>

\* The timer callback of scheduleReconnect: if cm.running { cm.connect() }.
TimerFire(p) ==
    /\ p[1] = "retry"
    /\ pc[p] = "timer"
    /\ IF cmRunning
         THEN InvokeConnect(p)
         ELSE /\ pc' = [pc EXCEPT ![p] = "done"]
              /\ UNCHANGED overlapped
    /\ UNCHANGED nonBusVars
    /\ UNCHANGED opVars
    /\ UNCHANGED <<cmRunning, cmConn, cmCh, mu, reconnecting, messageHandlers,
                   stopPc, connOpen, chOpen, bound, consumers, nextConn,
                   nextRetry, nBinds, registered, regAtLoss>>

\* Stop, first statement: cm.running = false.  The caller stops the client
\* after its Start calls have returned, as Agent.Stop does.
CMStopFlag ==
    /\ stopPc = "idle"
    /\ \A s \in 1..MaxStarts : pc[<<"start", s>>] \in {"idle", "done"}
    /\ \E s \in 1..MaxStarts : pc[<<"start", s>>] = "done"
    /\ cmRunning' = FALSE
    /\ stopPc' = "lock"
    /\ UNCHANGED nonBusVars
    /\ UNCHANGED opVars
    /\ UNCHANGED <<cmConn, cmCh, mu, reconnecting, messageHandlers, pc,
                   connOpen, chOpen, bound, consumers, nextConn, nextRetry,
                   nBinds, registered, regAtLoss, overlapped>>

\* Stop: cm.mu.Lock(); if cm.ch != nil { err := cm.ch.Close(); if err != nil
\* { return } }.  Close reports an error on a channel that is closed already.
CMStopCloseChannel ==
    /\ stopPc = "lock"
    /\ mu = Free
    /\ mu' = StopCaller
    /\ IF cmCh # Nil /\ cmCh \notin chOpen
         THEN /\ stopPc' = "returned"
              /\ UNCHANGED <<chOpen, bound, consumers>>
         ELSE /\ stopPc' = "close_conn"
              /\ chOpen' = chOpen \ {cmCh}
              /\ bound' = DropConn(cmCh, bound)
              /\ consumers' = DropConn(cmCh, consumers)
    /\ UNCHANGED nonBusVars
    /\ UNCHANGED opVars
    /\ UNCHANGED <<cmRunning, cmConn, cmCh, reconnecting, messageHandlers, pc,
                   connOpen, nextConn, nextRetry, nBinds, registered,
                   regAtLoss, overlapped>>

\* Stop: if cm.conn != nil { err := cm.conn.Close(); if err != nil { return } };
\* cm.mu.Unlock().  Close reports an error on a connection that is closed already.
CMStopCloseConn ==
    /\ stopPc = "close_conn"
    /\ stopPc' = "returned"
    /\ IF cmConn # Nil /\ cmConn \notin connOpen
         THEN UNCHANGED <<mu, connOpen>>
         ELSE /\ connOpen' = connOpen \ {cmConn}
              /\ mu' = Free
    /\ UNCHANGED nonBusVars
    /\ UNCHANGED opVars
    /\ UNCHANGED <<cmRunning, cmConn, cmCh, reconnecting, messageHandlers, pc,
                   chOpen, bound, consumers, nextConn, nextRetry, nBinds,
                   registered, regAtLoss, overlapped>>

\* Number of Publish and DeclareExchange calls the environment makes.
MaxCalls == 2

ResultExchanges == {"sys_result_exchange"}

\* config.Hostname
Hostname == "h1"

\* "result.node." + e.config.Hostname
ResultKey(h) == <<"result.node.", h>>

ResultKeys == {ResultKey(Hostname)}

Bodies == {"m1"}

NoOp == [op |-> "none", ch |-> "nil", err |-> FALSE]

InitOps ==
    /\ lastOp = NoOp
    /\ nCalls = 0
    /\ busPublished = << >>
    /\ declared = {}

\* cm.ch as a call finds it: nil, a channel the library has closed, or an open
\* channel.
ChState ==
    IF cmCh = Nil THEN "nil" ELSE IF cmCh \in chOpen THEN "live" ELSE "stale"

\* Faulty variant of BindQueue: the binding is stored after the cm.ch == nil
\* test instead of before it.
BindQueueLateStore(q, e, k, h) ==
    /\ nBinds < MaxBinds
    /\ mu = Free
    /\ nBinds' = nBinds + 1
    /\ LET b == [ExchangeName |-> e, RoutingKey |-> k, Handler |-> h] IN
        /\ messageHandlers' =
               IF cmCh = Nil THEN messageHandlers
               ELSE [messageHandlers EXCEPT ![q] = b]
        /\ registered' = registered \cup {<<q, e, k, h>>}
        /\ IF cmCh # Nil /\ BindSucceeds(cmCh, q)
             THEN /\ bound' = bound \cup {<<cmCh, q, e, k>>}
                  /\ consumers' = consumers \cup {NewConsumer(cmCh, q, h, consumers)}
             ELSE UNCHANGED <<bound, consumers>>
    /\ lastOp' = [op |-> "BindQueue", ch |-> ChState,
                  err |-> (cmCh # Nil /\ ~BindSucceeds(cmCh, q))]
    /\ UNCHANGED nonBusVars
    /\ UNCHANGED <<nCalls, busPublished, declared>>
    /\ UNCHANGED <<cmRunning, cmConn, cmCh, mu, reconnecting, pc, stopPc,
                   connOpen, chOpen, nextConn, nextRetry, regAtLoss, overlapped>>

\* BindQueue: under the lock, cm.messageHandlers[queueName] = binding; if
\* cm.ch == nil { return nil }; return cm.bindQueueInternal(...).  A bus
\* operation on a closed channel returns the library's ErrClosed.
BindQueue(q, e, k, h) ==
    /\ nBinds < MaxBinds
    /\ mu = Free
    /\ nBinds' = nBinds + 1
    /\ LET b == [ExchangeName |-> e, RoutingKey |-> k, Handler |-> h] IN
        /\ messageHandlers' = [messageHandlers EXCEPT ![q] = b]
        /\ registered' = registered \cup {<<q, e, k, h>>}
        /\ IF cmCh # Nil /\ BindSucceeds(cmCh, q)
             THEN /\ bound' = bound \cup {<<cmCh, q, e, k>>}
                  /\ consumers' = consumers \cup {NewConsumer(cmCh, q, h, consumers)}
             ELSE UNCHANGED <<bound, consumers>>
    /\ lastOp' = [op |-> "BindQueue", ch |-> ChState,
                  err |-> (cmCh # Nil /\ ~BindSucceeds(cmCh, q))]
    /\ regOrder' = IF \E i \in 1..Len(regOrder) : regOrder[i] = q
                    THEN regOrder ELSE Append(regOrder, q)
    /\ UNCHANGED <<replayed, connectRet>>
    /\ UNCHANGED nonClientVars
    /\ UNCHANGED <<nCalls, busPublished, declared>>
    /\ UNCHANGED <<cmRunning, cmConn, cmCh, mu, reconnecting, pc, stopPc,
                   connOpen, chOpen, nextConn, nextRetry, regAtLoss, overlapped>>

\* Faulty variant of Publish: a call that finds cm.ch == nil reports success.
PublishSilent(e, k, m) ==
    /\ nCalls < MaxCalls
    /\ mu = Free
    /\ nCalls' = nCalls + 1
    /\ busPublished' =
           IF ChState = "live" THEN Append(busPublished, <<e, k, m>>)
           ELSE busPublished
    /\ lastOp' = [op |-> "Publish", ch |-> ChState, err |-> (ChState = "stale")]
    /\ UNCHANGED nonBusVars
    /\ UNCHANGED <<busVars, declared>>

\* Publish: under the lock, if cm.ch == nil { return amqp091.ErrClosed };
\* return cm.ch.Publish(exchange, routingKey, false, false, ...).  The lock is
\* released by the deferred Unlock before the call returns.
Publish(e, k, m) ==
    /\ nCalls < MaxCalls
    /\ mu = Free
    /\ nCalls' = nCalls + 1
    /\ busPublished' =
           IF ChState = "live" THEN Append(busPublished, <<e, k, m>>)
           ELSE busPublished
    /\ lastOp' = [op |-> "Publish", ch |-> ChState, err |-> (ChState # "live")]
    /\ UNCHANGED nonBusVars
    /\ UNCHANGED <<busVars, declared>>

\* DeclareExchange: under the lock, if cm.ch == nil { return amqp091.ErrClosed };
\* return cm.ch.ExchangeDeclare(name, kind, true, false, false, false, nil).
DeclareExchange(e) ==
    /\ nCalls < MaxCalls
    /\ mu = Free
    /\ nCalls' = nCalls + 1
    /\ declared' = IF ChState = "live" THEN declared \cup {e} ELSE declared
    /\ lastOp' = [op |-> "DeclareExchange", ch |-> ChState,
                  err |-> (ChState # "live")]
    /\ UNCHANGED nonBusVars
    /\ UNCHANGED <<busVars, busPublished>>

NextBus ==
    \/ \E p \in Callers : CMStart(p)
    \/ \E p \in Callers : ConnectLock(p)
    \/ \E p \in Callers : ConnectDialFail(p)
    \/ \E p \in Callers : \E closeFails \in BOOLEAN :
          ConnectChannelFail(p, closeFails)
    \/ \E p \in Callers : ConnectSuccess(p)
    \/ \E c \in Conns : ConnLost(c)
    \/ \E p \in Callers : NotifyClear(p)
    \/ \E p \in Callers : NotifyCheck(p)
    \/ \E p \in Callers : scheduleReconnect(p)
    \/ \E p \in Callers : TimerFire(p)
    \/ CMStopFlag
    \/ CMStopCloseChannel
    \/ CMStopCloseConn
    \/ \E q \in Queues, e \in Exchanges, k \in RoutingKeys, h \in Handlers :
          BindQueue(q, e, k, h)

\* ------------------------------------------------------------------------
\* The consumption loop started by bindQueueInternal
\* ------------------------------------------------------------------------

\* Number of messages the bus delivers to the loop.
MaxDeliveries == 3

Deliveries == 1..MaxDeliveries

\* What the handler did inside: it has no return value, so the loop sees
\* neither.
Outcomes == {"ok", "failed"}

InitConsumer ==
    /\ deliveries = << >>
    /\ nDelivered = 0
    /\ deliveryClosed = FALSE
    /\ cpc = "recv"
    /\ curMsg = 0
    /\ events = << >>

\* The bus pushes the next delivery of the queue on the delivery channel.
Deliver ==
    /\ ~crashed
    /\ ~deliveryClosed
    /\ nDelivered < MaxDeliveries
    /\ nDelivered' = nDelivered + 1
    /\ deliveries' = Append(deliveries, nDelivered + 1)
    /\ UNCHANGED <<deliveryClosed, cpc, curMsg, events>>
    /\ UNCHANGED nonConsVars

\* The channel or its connection goes away: the library closes the delivery
\* channel, and acks sent from now on fail.
DeliveryClose ==
    /\ ~crashed
    /\ ~deliveryClosed
    /\ deliveryClosed' = TRUE
    /\ UNCHANGED <<deliveries, nDelivered, cpc, curMsg, events>>
    /\ UNCHANGED nonConsVars

\* for msg := range msg { handler(msg.Body) ...: the loop takes the oldest
\* delivery and calls the handler with it.
LoopRecv ==
    /\ ~crashed
    /\ cpc = "recv"
    /\ deliveries # << >>
    /\ curMsg' = Head(deliveries)
    /\ deliveries' = Tail(deliveries)
    /\ events' = Append(events, <<"handler", Head(deliveries), "call">>)
    /\ cpc' = "handler"
    /\ UNCHANGED <<nDelivered, deliveryClosed>>
    /\ UNCHANGED nonConsVars

\* range over a closed and drained channel ends the loop.
LoopEnd ==
    /\ ~crashed
    /\ cpc = "recv"
    /\ deliveries = << >>
    /\ deliveryClosed
    /\ cpc' = "exited"
    /\ UNCHANGED <<deliveries, nDelivered, deliveryClosed, curMsg, events>>
    /\ UNCHANGED nonConsVars

\* Faulty variant of HandlerReturn: the loop skips the ack of a message whose
\* handler failed.
HandlerReturnAckOnSuccess(o) ==
    /\ ~crashed
    /\ cpc = "handler"
    /\ events' = Append(events, <<"return", curMsg, o>>)
    /\ cpc' = IF o = "ok" THEN "ack" ELSE "recv"
    /\ UNCHANGED <<deliveries, nDelivered, deliveryClosed, curMsg>>
    /\ UNCHANGED nonConsVars

\* handler(msg.Body) returns; the next statement of the loop is msg.Ack(false).
HandlerReturn(o) ==
    /\ ~crashed
    /\ cpc = "handler"
    /\ events' = Append(events, <<"return", curMsg, o>>)
    /\ cpc' = "ack"
    /\ UNCHANGED <<deliveries, nDelivered, deliveryClosed, curMsg>>
    /\ UNCHANGED nonConsVars

\* The handler panics: the loop's goroutine has no recover, the process dies.
HandlerPanic ==
    /\ ~crashed
    /\ cpc = "handler"
    /\ crashed' = TRUE
    /\ cpc' = "dead"
    /\ UNCHANGED <<deliveries, nDelivered, deliveryClosed, curMsg, events>>
    /\ UNCHANGED <<wpRunning, taskQueue, queueClosed, wgCount, wpc, wtask,
                   executing, done, spc, afterStop, mainPc, queuedAtStop,
                   nWorkers, priorSent, runningAtStop>>
    /\ UNCHANGED <<busVars, opVars, authVars, runVars, execVars, signVars,
                   canonVars, orderVars, connectRet>>

\* err := msg.Ack(false); if err != nil { log; return }.  The ack succeeds on
\* an open channel and fails on a closed one.
LoopAck ==
    /\ ~crashed
    /\ cpc = "ack"
    /\ events' = Append(events,
                    <<"ack", curMsg, IF deliveryClosed THEN "error" ELSE "ok">>)
    /\ cpc' = IF deliveryClosed THEN "exited" ELSE "recv"
    /\ UNCHANGED <<deliveries, nDelivered, deliveryClosed, curMsg>>
    /\ UNCHANGED nonConsVars

NextConsumer ==
    \/ Deliver
    \/ DeliveryClose
    \/ LoopRecv
    \/ LoopEnd
    \/ \E o \in Outcomes : HandlerReturn(o)
    \/ HandlerPanic
    \/ LoopAck

\* ------------------------------------------------------------------------
\* Command authorization (Executor.isCommandAllowed)
\* ------------------------------------------------------------------------

\* Longest command line drawn as an input.
MaxCmdLen == 5

\* The characters command lines are made of; " " stands for any white space.
Alphabet == {" ", "/", "-", "d"}

\* Strings are sequences of characters.
Strings(n) == UNION {[1..k -> Alphabet] : k \in 0..n}

IsSpace(c) == c = " "

\* strings.HasPrefix(s, prefix)
HasPrefix(s, prefix) ==
    Len(prefix) <= Len(s) /\ SubSeq(s, 1, Len(prefix)) = prefix

\* strings.TrimSuffix(s, suffix): s without the suffix if it ends with it,
\* s otherwise.
TrimSuffix(s, suffix) ==
    IF /\ Len(suffix) <= Len(s)
       /\ SubSeq(s, Len(s) - Len(suffix) + 1, Len(s)) = suffix
    THEN SubSeq(s, 1, Len(s) - Len(suffix))
    ELSE s

\* strings.Fields(s): s split around each run of white space, no empty field.
\* F[i] is <<fields closed so far, field being read>> after i characters.
Fields(s) ==
    LET F[i \in 0..Len(s)] ==
            IF i = 0 THEN << << >>, << >> >>
            ELSE LET prev == F[i - 1] IN
                 IF IsSpace(s[i])
                 THEN IF prev[2] = << >> THEN prev
                      ELSE << Append(prev[1], prev[2]), << >> >>
                 ELSE << prev[1], Append(prev[2], s[i]) >>
        last == F[Len(s)]
    IN IF last[2] = << >> THEN last[1] ELSE Append(last[1], last[2])

\* The dangerousCommands literal of isCommandAllowed.
dangerousCommands ==
    << <<"r", "m">>,
       <<"s", "h", "u", "t", "d", "o", "w", "n">>,
       <<"r", "e", "b", "o", "o", "t">>,
       <<"h", "a", "l", "t">>,
       <<"p", "o", "w", "e", "r", "o", "f", "f">>,
       <<"d", "d">>,
       <<"m", "k", "f", "s">>,
       <<"f", "d", "i", "s", "k">> >>

\* Faulty variant of IsListed: strings.Contains in place of strings.HasPrefix.
IsListedContains(cmdName, allowedCommands) ==
    \E i \in 1..Len(allowedCommands) :
        \E a \in 1..(Len(cmdName) + 1) :
            HasPrefix(SubSeq(cmdName, a, Len(cmdName)), allowedCommands[i])

\* for _, allowedCmd := range e.config.AllowedCommands {
\*     if strings.HasPrefix(cmdName, allowedCmd) { allowed = true; break } }
IsListed(cmdName, allowedCommands) ==
    \E i \in 1..Len(allowedCommands) : HasPrefix(cmdName, allowedCommands[i])

\* Faulty variant of IsDangerous: cmdName == dangerous in place of
\* strings.HasPrefix.
IsDangerousExact(cmdName) ==
    \E i \in 1..Len(dangerousCommands) : cmdName = dangerousCommands[i]

\* for _, dangerous := range dangerousCommands {
\*     if strings.HasPrefix(cmdName, dangerous) { return false } }
IsDangerous(cmdName) ==
    \E i \in 1..Len(dangerousCommands) : HasPrefix(cmdName, dangerousCommands[i])

\* isCommandAllowed of package internal: no directory check.
isCommandAllowedInternal(command, allowedCommands) ==
    LET cmdParts == Fields(command) IN
    IF Len(cmdParts) = 0 THEN FALSE
    ELSE IF ~IsListed(cmdParts[1], allowedCommands) THEN FALSE
    ELSE IF IsDangerous(cmdParts[1]) THEN FALSE
    ELSE TRUE

\* Faulty variant of isDirectoryAllowed: the prefix test lacks the "/" after
\* the directory.
isDirectoryAllowedNoSlash(path, allowedDirectories) ==
    LET p == TrimSuffix(path, <<"/">>) IN
    \E i \in 1..Len(allowedDirectories) :
        LET allowedDir == TrimSuffix(allowedDirectories[i], <<"/">>) IN
        p = allowedDir \/ HasPrefix(p, allowedDir)

\* isDirectoryAllowed: path = TrimSuffix(path, "/"); for each allowedDir:
\* allowedDir = TrimSuffix(allowedDir, "/"); if path == allowedDir ||
\* HasPrefix(path, allowedDir + "/") { return true }; return false.
isDirectoryAllowed(path, allowedDirectories) ==
    LET p == TrimSuffix(path, <<"/">>) IN
    \E i \in 1..Len(allowedDirectories) :
        LET allowedDir == TrimSuffix(allowedDirectories[i], <<"/">>) IN
        p = allowedDir \/ HasPrefix(p, allowedDir \o <<"/">>)

\* isPathAllowed: every field but the first that does not start with "-" and
\* starts with "/" must pass isDirectoryAllowed.
isPathAllowed(command, allowedDirectories) ==
    LET cmdParts == Fields(command) IN
    \A i \in 1..Len(cmdParts) :
        IF i = 1 THEN TRUE
        ELSE IF HasPrefix(cmdParts[i], <<"-">>) THEN TRUE
        ELSE IF HasPrefix(cmdParts[i], <<"/">>)
             THEN isDirectoryAllowed(cmdParts[i], allowedDirectories)
             ELSE TRUE

\* isCommandAllowed of the root package: the same tests, then isPathAllowed.
isCommandAllowed(command, allowedCommands, allowedDirectories) ==
    LET cmdParts == Fields(command) IN
    IF Len(cmdParts) = 0 THEN FALSE
    ELSE IF ~IsListed(cmdParts[1], allowedCommands) THEN FALSE
    ELSE IF IsDangerous(cmdParts[1]) THEN FALSE
    ELSE IF ~isPathAllowed(command, allowedDirectories) THEN FALSE
    ELSE TRUE

\* The command allow-lists drawn as inputs.
AllowLists == { << >>, << <<"d">> >>, << <<"d", "d">>, <<"/">> >> }

\* The directory allow-lists drawn as inputs; the empty one is a Config built
\* without AllowedDirectories.
DirLists == { << >>,
              << <<"/", "d">> >>,
              << <<"/", "-", "/">>, <<"/", "d">> >>,
              << <<"/">> >> }

ToRet(b) == IF b THEN "true" ELSE "false"

\* No authorization call has been made.
InitAuth ==
    /\ cmdLine = << >>
    /\ cfgCommands = << >>
    /\ cfgDirs = << <<"/", "d">> >>
    /\ retInternal = "none"
    /\ retRoot = "none"

\* The inputs of the authorization functions.
AuthInputs ==
    /\ cmdLine \in Strings(MaxCmdLen)
    /\ cfgCommands \in AllowLists
    /\ cfgDirs \in DirLists
    /\ retInternal = "none"
    /\ retRoot = "none"

CallIsCommandAllowedInternal ==
    /\ retInternal = "none"
    /\ retInternal' = ToRet(isCommandAllowedInternal(cmdLine, cfgCommands))
    /\ UNCHANGED <<cmdLine, cfgCommands, cfgDirs, retRoot>>
    /\ UNCHANGED nonAuthVars

CallIsCommandAllowed ==
    /\ retRoot = "none"
    /\ retRoot' = ToRet(isCommandAllowed(cmdLine, cfgCommands, cfgDirs))
    /\ UNCHANGED <<cmdLine, cfgCommands, cfgDirs, retInternal>>
    /\ UNCHANGED nonAuthVars

NextAuth ==
    \/ CallIsCommandAllowedInternal
    \/ CallIsCommandAllowed

\* ------------------------------------------------------------------------
\* Executor.runCommand
\* ------------------------------------------------------------------------

\* Number of output chunks the process writes.
MaxChunks == 2

\* The timeout arguments drawn, in seconds; config.CommandTimeout in seconds.
TimeoutArgs == {-1, 0, 5}

DefaultTimeout == 300

\* time.Second in the unit a time.Duration counts.  The model counts
\* milliseconds where Go counts nanoseconds.
Second == 1000

\* config.CommandTimeout as LoadConfig builds it without a configured value.
CommandTimeout == DefaultTimeout * Second

\* int(d.Seconds()) for a duration that is not negative.
Seconds(d) == d \div Second

\* No timer has been created.
NoTimer == -1

\* Exit statuses of the process.
ExitStatuses == {0, 1}

\* The text the timeout branch appends to the captured stderr.
TimedOutText == "\nCommand timed out"

NoRet == [code |-> 0, stdout |-> << >>, stderr |-> << >>, err |-> "none"]

InitRun ==
    /\ rpc = "idle"
    /\ rTimeout = 0
    /\ proc = "none"
    /\ procStatus = 0
    /\ pipeOut = << >>
    /\ pipeErr = << >>
    /\ stdoutBuf = << >>
    /\ stderrBuf = << >>
    /\ nChunks = 0
    /\ waitPc = "none"
    /\ doneCh = << >>
    /\ timerFired = FALSE
    /\ killCalled = FALSE
    /\ runRet = NoRet
    /\ rArg = 0
    /\ timerDur = NoTimer

\* runCommand with the test `timeout < 0`: a timeout of 0 is kept.
RunCallKeepZero(t) ==
    /\ rpc = "idle"
    /\ rTimeout' = IF t < 0 THEN Seconds(CommandTimeout) ELSE t
    /\ rArg' = t
    /\ UNCHANGED timerDur
    /\ rpc' = "start"
    /\ UNCHANGED <<proc, procStatus, pipeOut, pipeErr, stdoutBuf, stderrBuf,
                   nChunks, waitPc, doneCh, timerFired, killCalled, runRet>>
    /\ UNCHANGED nonRunVars

\* runCommand(command, timeout): if timeout <= 0 { timeout =
\* int(e.config.CommandTimeout.Seconds()) }; exec.Command("/bin/sh", "-c", ...).
RunCall(t) ==
    /\ rpc = "idle"
    /\ rTimeout' = IF t <= 0 THEN Seconds(CommandTimeout) ELSE t
    /\ rArg' = t
    /\ UNCHANGED timerDur
    /\ rpc' = "start"
    /\ UNCHANGED <<proc, procStatus, pipeOut, pipeErr, stdoutBuf, stderrBuf,
                   nChunks, waitPc, doneCh, timerFired, killCalled, runRet>>
    /\ UNCHANGED nonRunVars

\* cmd.Start() fails: return -1, "", "", err.
RunStartFail ==
    /\ rpc = "start"
    /\ runRet' = [code |-> -1, stdout |-> << >>, stderr |-> << >>, err |-> "start"]
    /\ rpc' = "returned"
    /\ UNCHANGED <<rTimeout, proc, procStatus, pipeOut, pipeErr, stdoutBuf,
                   stderrBuf, nChunks, waitPc, doneCh, timerFired, killCalled>>
    /\ UNCHANGED <<rArg, timerDur>>
    /\ UNCHANGED nonRunVars

\* cmd.Start() succeeds; done := make(chan error, 1); go func() { done <-
\* cmd.Wait() }(); the goroutine of runCommand reaches the select, which
\* evaluates time.After(time.Duration(timeout) * time.Second).
RunStartOk ==
    /\ rpc = "start"
    /\ proc' = "running"
    /\ waitPc' = "waiting"
    /\ rpc' = "select"
    /\ UNCHANGED <<rTimeout, procStatus, pipeOut, pipeErr, stdoutBuf, stderrBuf,
                   nChunks, doneCh, timerFired, killCalled, runRet>>
    /\ timerDur' = rTimeout * Second
    /\ UNCHANGED rArg
    /\ UNCHANGED nonRunVars

\* The process writes a chunk on its stdout or stderr pipe.
ProcWrite(stream) ==
    /\ proc = "running"
    /\ nChunks < MaxChunks
    /\ nChunks' = nChunks + 1
    /\ IF stream = "stdout"
         THEN pipeOut' = Append(pipeOut, nChunks + 1) /\ UNCHANGED pipeErr
         ELSE pipeErr' = Append(pipeErr, nChunks + 1) /\ UNCHANGED pipeOut
    /\ UNCHANGED <<rpc, rTimeout, proc, procStatus, stdoutBuf, stderrBuf, waitPc,
                   doneCh, timerFired, killCalled, runRet>>
    /\ UNCHANGED <<rArg, timerDur>>
    /\ UNCHANGED nonRunVars

\* The copying goroutine of os/exec moves a chunk from a pipe to its
\* strings.Builder.
CopyOutput(stream) ==
    /\ IF stream = "stdout"
         THEN /\ pipeOut # << >>
              /\ stdoutBuf' = Append(stdoutBuf, Head(pipeOut))
              /\ pipeOut' = Tail(pipeOut)
              /\ UNCHANGED <<pipeErr, stderrBuf>>
         ELSE /\ pipeErr # << >>
              /\ stderrBuf' = Append(stderrBuf, Head(pipeErr))
              /\ pipeErr' = Tail(pipeErr)
              /\ UNCHANGED <<pipeOut, stdoutBuf>>
    /\ UNCHANGED <<rpc, rTimeout, proc, procStatus, nChunks, waitPc, doneCh,
                   timerFired, killCalled, runRet>>
    /\ UNCHANGED <<rArg, timerDur>>
    /\ UNCHANGED nonRunVars

\* The process exits by itself.
ProcExit(status) ==
    /\ proc = "running"
    /\ proc' = "exited"
    /\ procStatus' = status
    /\ UNCHANGED <<rpc, rTimeout, pipeOut, pipeErr, stdoutBuf, stderrBuf, nChunks,
                   waitPc, doneCh, timerFired, killCalled, runRet>>
    /\ UNCHANGED <<rArg, timerDur>>
    /\ UNCHANGED nonRunVars

\* The process is ended by a signal that runCommand did not send.
ProcSignalled ==
    /\ proc = "running"
    /\ proc' = "signalled"
    /\ UNCHANGED <<rpc, rTimeout, procStatus, pipeOut, pipeErr, stdoutBuf,
                   stderrBuf, nChunks, waitPc, doneCh, timerFired, killCalled,
                   runRet>>
    /\ UNCHANGED <<rArg, timerDur>>
    /\ UNCHANGED nonRunVars

\* (*ExitError).ExitCode(): the exit status, -1 for a process ended by a
\* signal.
ExitCode == IF proc = "exited" THEN procStatus ELSE -1

\* cmd.Wait() returns once the process has ended and the output is copied:
\* nil for status 0, an *ExitError otherwise, another error when copying
\* failed.  done <- cmd.Wait() never blocks, the channel has room for one.
WaitReturn(copyFailed) ==
    /\ waitPc = "waiting"
    /\ proc \in {"exited", "signalled", "killed"}
    /\ pipeOut = << >> /\ pipeErr = << >>
    /\ doneCh' = << IF proc = "exited" /\ procStatus = 0
                      THEN (IF copyFailed THEN "other" ELSE "nil")
                      ELSE "ExitError" >>
    /\ waitPc' = "done"
    /\ UNCHANGED <<rpc, rTimeout, proc, procStatus, pipeOut, pipeErr, stdoutBuf,
                   stderrBuf, nChunks, timerFired, killCalled, runRet>>
    /\ UNCHANGED <<rArg, timerDur>>
    /\ UNCHANGED nonRunVars

\* The duration of time.After has passed.
TimerElapse ==
    /\ rpc = "select"
    /\ ~timerFired
    /\ timerFired' = TRUE
    /\ UNCHANGED <<rpc, rTimeout, proc, procStatus, pipeOut, pipeErr, stdoutBuf,
                   stderrBuf, nChunks, waitPc, doneCh, killCalled, runRet>>
    /\ UNCHANGED <<rArg, timerDur>>
    /\ UNCHANGED nonRunVars

\* Faulty variant of RunSelectDone: every error of cmd.Wait(), an *ExitError
\* included, is returned as -1 with the error.
RunSelectDoneAnyError ==
    /\ rpc = "select"
    /\ doneCh # << >>
    /\ doneCh' = << >>
    /\ runRet' = [code |-> IF Head(doneCh) = "nil" THEN 0 ELSE -1,
                  stdout |-> stdoutBuf,
                  stderr |-> stderrBuf,
                  err |-> IF Head(doneCh) = "nil" THEN "nil" ELSE "wait"]
    /\ rpc' = "returned"
    /\ UNCHANGED <<rTimeout, proc, procStatus, pipeOut, pipeErr, stdoutBuf,
                   stderrBuf, nChunks, waitPc, timerFired, killCalled>>
    /\ UNCHANGED <<rArg, timerDur>>
    /\ UNCHANGED nonRunVars

\* case err := <-done: exit code of an *ExitError with a nil error, -1 and the
\* error for another error, 0 for nil.
RunSelectDone ==
    /\ rpc = "select"
    /\ doneCh # << >>
    /\ doneCh' = << >>
    /\ runRet' = [code |-> IF Head(doneCh) = "nil" THEN 0
                           ELSE IF Head(doneCh) = "ExitError" THEN ExitCode
                           ELSE -1,
                  stdout |-> stdoutBuf,
                  stderr |-> stderrBuf,
                  err |-> IF Head(doneCh) = "other" THEN "wait" ELSE "nil"]
    /\ rpc' = "returned"
    /\ UNCHANGED <<rTimeout, proc, procStatus, pipeOut, pipeErr, stdoutBuf,
                   stderrBuf, nChunks, waitPc, timerFired, killCalled>>
    /\ UNCHANGED <<rArg, timerDur>>
    /\ UNCHANGED nonRunVars

\* case <-time.After(...): the select takes the timer's branch.
RunSelectTimeout ==
    /\ rpc = "select"
    /\ timerFired
    /\ rpc' = "kill"
    /\ UNCHANGED <<rTimeout, proc, procStatus, pipeOut, pipeErr, stdoutBuf,
                   stderrBuf, nChunks, waitPc, doneCh, timerFired, killCalled,
                   runRet>>
    /\ UNCHANGED <<rArg, timerDur>>
    /\ UNCHANGED nonRunVars

\* cmd.Process.Kill(): ends a running process; on a process that has already
\* ended it returns an error, which is logged.
RunKill ==
    /\ rpc = "kill"
    /\ killCalled' = TRUE
    /\ proc' = IF proc = "running" THEN "killed" ELSE proc
    /\ rpc' = "timeoutReturn"
    /\ UNCHANGED <<rTimeout, procStatus, pipeOut, pipeErr, stdoutBuf, stderrBuf,
                   nChunks, waitPc, doneCh, timerFired, runRet>>
    /\ UNCHANGED <<rArg, timerDur>>
    /\ UNCHANGED nonRunVars

\* Faulty variant of RunTimeoutReturn: the captured stderr is replaced by the
\* time-out text instead of being followed by it.
RunTimeoutReturnReplace ==
    /\ rpc = "timeoutReturn"
    /\ runRet' = [code |-> -2, stdout |-> stdoutBuf,
                  stderr |-> <<TimedOutText>>, err |-> "nil"]
    /\ rpc' = "returned"
    /\ UNCHANGED <<rTimeout, proc, procStatus, pipeOut, pipeErr, stdoutBuf,
                   stderrBuf, nChunks, waitPc, doneCh, timerFired, killCalled>>
    /\ UNCHANGED <<rArg, timerDur>>
    /\ UNCHANGED nonRunVars

\* return -2, stdout.String(), stderr.String() + "\nCommand timed out", nil.
\* The builders are read while the copying goroutines may still write them:
\* the call gets what has been copied so far.
RunTimeoutReturn ==
    /\ rpc = "timeoutReturn"
    /\ runRet' = [code |-> -2, stdout |-> stdoutBuf,
                  stderr |-> Append(stderrBuf, TimedOutText), err |-> "nil"]
    /\ rpc' = "returned"
    /\ UNCHANGED <<rTimeout, proc, procStatus, pipeOut, pipeErr, stdoutBuf,
                   stderrBuf, nChunks, waitPc, doneCh, timerFired, killCalled>>
    /\ UNCHANGED <<rArg, timerDur>>
    /\ UNCHANGED nonRunVars

NextRun ==
    \/ \E t \in TimeoutArgs : RunCall(t)
    \/ RunStartFail
    \/ RunStartOk
    \/ \E stream \in {"stdout", "stderr"} : ProcWrite(stream)
    \/ \E stream \in {"stdout", "stderr"} : CopyOutput(stream)
    \/ \E status \in ExitStatuses : ProcExit(status)
    \/ ProcSignalled
    \/ \E copyFailed \in BOOLEAN : WaitReturn(copyFailed)
    \/ TimerElapse
    \/ RunSelectDone
    \/ RunSelectTimeout
    \/ RunKill
    \/ RunTimeoutReturn

\* ------------------------------------------------------------------------
\* Executor.Execute
\* ------------------------------------------------------------------------

\* The Execute calls in progress: one per worker of the pool.
Execs == Workers

\* A member of a JSON object: absent, a string, or a number.
Absent == <<"absent">>

JStr(v) == <<"string", v>>

JNum(n) == <<"number", n>>

\* The payloads delivered: bytes that are no JSON, and objects whose task_id
\* is a string or a number and whose command is absent or a string.
Payloads ==
    {[syntax |-> "invalid", task_id |-> Absent, command |-> Absent]}
    \cup {[syntax |-> "object", task_id |-> t, command |-> c] :
            t \in {JStr("t1"), JStr("t2"), JNum(1)},
            c \in {Absent, JStr(<<"d">>), JStr(<<"d", "d">>), JStr(<<"-">>)}}

\* json.Unmarshal(msg, &cmdMsg): an error for bytes that are no JSON and for a
\* number where the field is a string; an absent member leaves the zero value.
UnmarshalFails(payload) ==
    \/ payload.syntax # "object"
    \/ payload.task_id[1] = "number"
    \/ payload.command[1] = "number"

Unmarshal(payload) ==
    [TaskID |-> IF payload.task_id[1] = "string" THEN payload.task_id[2] ELSE "",
     Command |-> IF payload.command[1] = "string" THEN payload.command[2] ELSE << >>]

\* config.AllowedCommands of the Execute calls.
ExecAllowed == << <<"d">> >>

\* What runCommand can return, with a sample of captured output.
RunResults ==
    {[code |-> -1, stdout |-> << >>, stderr |-> << >>, err |-> "start"]}
    \cup {[code |-> c, stdout |-> <<1>>, stderr |-> <<2>>, err |-> "nil"] :
            c \in ExitStatuses \cup {-1}}
    \cup {[code |-> -1, stdout |-> <<1>>, stderr |-> <<2>>, err |-> "wait"]}
    \cup {[code |-> -2, stdout |-> <<1>>, stderr |-> <<2, TimedOutText>>,
           err |-> "nil"]}

NoMsg == [TaskID |-> "", Command |-> << >>]

IdleExec ==
    [pc |-> "idle",
     payload |-> [syntax |-> "invalid", task_id |-> Absent, command |-> Absent],
     cmdMsg |-> NoMsg, rc |-> NoRet, runCalls |-> 0, ret |-> "none"]

InitExec ==
    /\ ex = [e \in Execs |-> IdleExec]
    /\ execClient = TRUE
    /\ attempts = << >>

\* The Executor is built with or without a bus client.
ExecInputs ==
    /\ ex = [e \in Execs |-> IdleExec]
    /\ execClient \in BOOLEAN
    /\ attempts = << >>

\* Faulty variant of ExecBegin: a rejected command is logged and then run.
ExecBeginNoReturn(e, payload) ==
    /\ ~crashed
    /\ ex[e].pc = "idle"
    /\ IF UnmarshalFails(payload)
         THEN ex' = [ex EXCEPT ![e] = [@ EXCEPT !.pc = "returned",
                                                !.payload = payload,
                                                !.ret = "error"]]
         ELSE ex' = [ex EXCEPT ![e] = [@ EXCEPT !.pc = "running",
                                                !.payload = payload,
                                                !.cmdMsg = Unmarshal(payload),
                                                !.runCalls = @ + 1]]
    /\ UNCHANGED <<execClient, attempts>>
    /\ UNCHANGED nonExecVars

\* Execute(msg) up to the call of runCommand: json.Unmarshal fails -> return
\* an error; !isCommandAllowed(cmdMsg.Command) -> log, return an error;
\* otherwise runCommand(cmdMsg.Command, cmdMsg.Timeout) is called.
ExecBegin(e, payload) ==
    /\ ~crashed
    /\ ex[e].pc = "idle"
    /\ IF UnmarshalFails(payload)
         THEN ex' = [ex EXCEPT ![e] = [@ EXCEPT !.pc = "returned",
                                                !.payload = payload,
                                                !.ret = "error"]]
         ELSE IF ~isCommandAllowedInternal(Unmarshal(payload).Command, ExecAllowed)
         THEN ex' = [ex EXCEPT ![e] = [@ EXCEPT !.pc = "returned",
                                                !.payload = payload,
                                                !.cmdMsg = Unmarshal(payload),
                                                !.ret = "error"]]
         ELSE ex' = [ex EXCEPT ![e] = [@ EXCEPT !.pc = "running",
                                                !.payload = payload,
                                                !.cmdMsg = Unmarshal(payload),
                                                !.runCalls = @ + 1]]
    /\ UNCHANGED <<execClient, attempts>>
    /\ UNCHANGED nonExecVars

\* runCommand returns; an error is logged.
ExecRun(e, r) ==
    /\ ~crashed
    /\ ex[e].pc = "running"
    /\ ex' = [ex EXCEPT ![e] = [@ EXCEPT !.pc = "ran", !.rc = r]]
    /\ UNCHANGED <<execClient, attempts>>
    /\ UNCHANGED nonExecVars

\* Faulty variant of BuildResult: the message is read from a field that the
\* Execute calls share, and that another call in progress has overwritten.
BuildResultShared(e) ==
    LET others == {o \in Execs : o # e /\ ex[o].pc \in {"running", "ran"}}
        m == IF others = {} THEN ex[e].cmdMsg
             ELSE ex[CHOOSE o \in others : TRUE].cmdMsg
    IN [TaskID |-> m.TaskID, ExitCode |-> ex[e].rc.code,
        Stdout |-> ex[e].rc.stdout, Stderr |-> ex[e].rc.stderr,
        Hostname |-> Hostname]

\* result := CommandResult{TaskID: cmdMsg.TaskID, ExitCode: exitCode, Stdout:
\* stdout, Stderr: stderr, Hostname: e.config.Hostname, Timestamp: now}.
BuildResult(e) ==
    [TaskID |-> ex[e].cmdMsg.TaskID, ExitCode |-> ex[e].rc.code,
     Stdout |-> ex[e].rc.stdout, Stderr |-> ex[e].rc.stderr,
     Hostname |-> Hostname]

\* json.Marshal(result): the object with the members the struct tags name.
Marshal(result) ==
    [task_id |-> JStr(result.TaskID), exit_code |-> JNum(result.ExitCode),
     stdout |-> JStr(result.Stdout), stderr |-> JStr(result.Stderr),
     hostname |-> JStr(result.Hostname)]

\* Faulty variant of ExecSend: a run that ended with an error returns it
\* without sending a result.
ExecSendOnSuccess(e, ok) ==
    /\ ~crashed
    /\ ex[e].pc = "ran"
    /\ IF ex[e].rc.err # "nil"
         THEN /\ ex' = [ex EXCEPT ![e] = [@ EXCEPT !.pc = "returned", !.ret = "error"]]
              /\ UNCHANGED attempts
         ELSE /\ ex' = [ex EXCEPT ![e] = [@ EXCEPT !.pc = "returned", !.ret = "nil"]]
              /\ attempts' =
                   IF execClient
                   THEN Append(attempts,
                               [exec |-> e, exchange |-> "sys_result_exchange",
                                routingKey |-> ResultKey(Hostname),
                                body |-> Marshal(BuildResult(e)), ok |-> ok])
                   ELSE attempts
    /\ UNCHANGED execClient
    /\ UNCHANGED nonExecVars

\* Faulty variant of ExecSend: an error of Publish is returned by sendResult
\* and by Execute.
ExecSendEscalate(e, ok) ==
    /\ ~crashed
    /\ ex[e].pc = "ran"
    /\ ex' = [ex EXCEPT ![e] = [@ EXCEPT !.pc = "returned",
                                         !.ret = IF execClient /\ ~ok
                                                   THEN "error" ELSE "nil"]]
    /\ attempts' =
         IF execClient
         THEN Append(attempts,
                     [exec |-> e, exchange |-> "sys_result_exchange",
                      routingKey |-> ResultKey(Hostname),
                      body |-> Marshal(BuildResult(e)), ok |-> ok])
         ELSE attempts
    /\ UNCHANGED execClient
    /\ UNCHANGED nonExecVars

\* The rest of Execute: build the result, sendResult(result), return nil.
\* sendResult marshals the result and, if e.connManager != nil, calls
\* Publish("sys_result_exchange", "result.node." + hostname, resultJSON) once;
\* an error of Publish is logged.
ExecSend(e, ok) ==
    /\ ~crashed
    /\ ex[e].pc = "ran"
    /\ ex' = [ex EXCEPT ![e] = [@ EXCEPT !.pc = "returned", !.ret = "nil"]]
    /\ attempts' =
         IF execClient
         THEN Append(attempts,
                     [exec |-> e, exchange |-> "sys_result_exchange",
                      routingKey |-> ResultKey(Hostname),
                      body |-> Marshal(BuildResult(e)), ok |-> ok])
         ELSE attempts
    /\ UNCHANGED execClient
    /\ UNCHANGED nonExecVars

NextExec ==
    \/ \E e \in Execs, payload \in Payloads : ExecBegin(e, payload)
    \/ \E e \in Execs, r \in RunResults : ExecRun(e, r)
    \/ \E e \in Execs, ok \in BOOLEAN : ExecSend(e, ok)

\* ------------------------------------------------------------------------
\* Canonical form (pkg/util/signature.go, buildSortedJSON)
\* ------------------------------------------------------------------------

\* The characters that occur in keys, values and canonical forms, in byte
\* order.
CharTable ==
    <<"\"", ",", "-", "0", "1", "2", "3", "4", "5", "6", "7", "8", "9", ":",
      "B", "a", "b", "c", "d", "e", "f", "g", "h", "i", "j", "k", "l", "m",
      "n", "o", "p", "q", "r", "s", "t", "u", "v", "w", "x", "y", "z", "{",
      "}">>

\* The rank of a character in byte order.
Byte(c) == CHOOSE i \in 1..Len(CharTable) : CharTable[i] = c

\* a < b on Go strings: bytewise lexicographic order.
RECURSIVE StrLess(_, _)
StrLess(a, b) ==
    IF b = << >> THEN FALSE
    ELSE IF a = << >> THEN TRUE
    ELSE IF Head(a) = Head(b) THEN StrLess(Tail(a), Tail(b))
    ELSE Byte(Head(a)) < Byte(Head(b))

RECURSIVE InsertSorted(_, _)
InsertSorted(k, sorted) ==
    IF sorted = << >> THEN <<k>>
    ELSE IF StrLess(Head(sorted), k)
         THEN <<Head(sorted)>> \o InsertSorted(k, Tail(sorted))
         ELSE <<k>> \o sorted

\* A faulty sort.Strings: the keys stay in the order of the iteration.
SortStringsKeepOrder(keys) == keys

\* sort.Strings(keys).
RECURSIVE SortStrings(_)
SortStrings(keys) ==
    IF keys = << >> THEN << >>
    ELSE InsertSorted(Head(keys), SortStrings(Tail(keys)))

DecimalDigits == <<"0", "1", "2", "3", "4", "5", "6", "7", "8", "9">>

\* strconv.Itoa and strconv.FormatInt(v, 10).
RECURSIVE FormatInt(_)
FormatInt(n) ==
    IF n < 0 THEN <<"-">> \o FormatInt(-n)
    ELSE IF n < 10 THEN <<DecimalDigits[n + 1]>>
    ELSE FormatInt(n \div 10) \o <<DecimalDigits[(n % 10) + 1]>>

\* Values of a parameter set: a string, an int, an int64, a bool, and two
\* values of other types: nil, which json.Marshal encodes, and a channel,
\* which it refuses.
VString(s) == <<"string", s>>
VInt(n) == <<"int", n>>
VInt64(n) == <<"int64", n>>
VBool(b) == <<"bool", b>>
VNil == <<"nil">>
VChan == <<"chan">>

\* The default branch of the type switch: json.Marshal(v) fails.
MarshalFails(v) == v[1] = "chan"

\* The bytes one value is written as (the type switch of buildSortedJSON).
WriteValue(v) ==
    CASE v[1] = "string" -> <<"\"">> \o v[2] \o <<"\"">>
      [] v[1] = "int" -> FormatInt(v[2])
      [] v[1] = "int64" -> FormatInt(v[2])
      [] v[1] = "bool" -> IF v[2] THEN <<"t", "r", "u", "e">>
                                  ELSE <<"f", "a", "l", "s", "e">>
      [] OTHER -> <<"n", "u", "l", "l">>

RECURSIVE WriteFields(_, _, _)
WriteFields(params, keys, i) ==
    IF i > Len(keys) THEN << >>
    ELSE (IF i > 1 THEN <<",">> ELSE << >>)
         \o <<"\"">> \o keys[i] \o <<"\"", ":">>
         \o WriteValue(params[keys[i]])
         \o WriteFields(params, keys, i + 1)

\* buildSortedJSON(params); iter is the order in which range yields the keys
\* of the map.
buildSortedJSON(params, iter) ==
    LET keys == SortStrings(iter)
    IN  IF \E k \in DOMAIN params : MarshalFails(params[k])
        THEN [bytes |-> << >>, err |-> "json: unsupported type"]
        ELSE [bytes |-> <<"{">> \o WriteFields(params, keys, 1) \o <<"}">>,
              err |-> "nil"]

\* Number of buildSortedJSON calls on one parameter set.
MaxCanonCalls == 2

HostnameKey == <<"h", "o", "s", "t", "n", "a", "m", "e">>

TimestampKey == <<"t", "i", "m", "e", "s", "t", "a", "m", "p">>

StatusKey == <<"s", "t", "a", "t", "u", "s">>

\* The parameter sets buildSortedJSON is applied to.
ParamSets ==
    { (TimestampKey :> VInt(12)) @@ (HostnameKey :> VString(<<"t", "-", "h">>))
          @@ (StatusKey :> VString(<<"o", "n">>)),
      (<<"a", "b">> :> VBool(TRUE)) @@ (<<"a">> :> VNil) @@ (<<"B">> :> VInt64(-3)),
      (<<"b">> :> VChan) @@ (<<"a">> :> VBool(FALSE)),
      (<<"b">> :> VString(<<"\"", ",">>)) @@ (<<"a", "a">> :> VInt(0)) }

InitCanon ==
    /\ cjPairs = << >>
    /\ cjCalls = << >>

CanonInputs ==
    /\ cjPairs \in ParamSets
    /\ cjCalls = << >>

\* The map a caller builds by inserting the pairs in the given order.
RECURSIVE BuildMap(_, _)
BuildMap(pairs, order) ==
    IF order = << >> THEN << >>
    ELSE BuildMap(pairs, SubSeq(order, 1, Len(order) - 1))
         @@ (order[Len(order)] :> pairs[order[Len(order)]])

\* One call of buildSortedJSON on the map built in the given order.
CallBuildSortedJSON(order, iter) ==
    /\ Len(cjCalls) < MaxCanonCalls
    /\ LET params == BuildMap(cjPairs, order)
       IN  cjCalls' = Append(cjCalls,
                         [order |-> order, iter |-> iter,
                          ret |-> buildSortedJSON(params, iter)])
    /\ UNCHANGED cjPairs
    /\ UNCHANGED nonCanonVars

NextCanon ==
    \E order \in Perms(DOMAIN cjPairs), iter \in Perms(DOMAIN cjPairs) :
        CallBuildSortedJSON(order, iter)

\* ------------------------------------------------------------------------
\* Message signer (internal/signer.go, pkg/util/signature.go)
\* ------------------------------------------------------------------------

\* Largest value of the clock, in seconds since the epoch.
MaxTime == 2

Times == 1..MaxTime

Hostnames == { <<"a">>, <<"b">>, <<"a", "\"", ",">> }

NoKey == "none"

\* The key pairs the key files can hold: modulus, public and private
\* exponent.  A signature is one byte long.
KeyPairs ==
    [k1 |-> [n |-> 253, e |-> 3, d |-> 147],
     k2 |-> [n |-> 187, e |-> 3, d |-> 107]]

Keys == DOMAIN KeyPairs

RECURSIVE ModExp(_, _, _)
ModExp(b, x, n) ==
    IF x = 0 THEN 1
    ELSE IF x % 2 = 0
         THEN LET h == ModExp(b, x \div 2, n) IN (h * h) % n
         ELSE (b * ModExp(b, x - 1, n)) % n

\* sha256.Sum256(signContent): a digest of the bytes.
RECURSIVE Sha256(_)
Sha256(bytes) ==
    IF bytes = << >> THEN 7
    ELSE (31 * Sha256(SubSeq(bytes, 1, Len(bytes) - 1))
             + Byte(bytes[Len(bytes)])) % 127

\* The message the digest is padded to before the private-key operation.
EncodedMessage(hashed) == hashed + 2

\* rsa.SignPKCS1v15(rand.Reader, privateKey, crypto.SHA256, hash[:]).
SignPKCS1v15(k, hashed) ==
    <<ModExp(EncodedMessage(hashed), KeyPairs[k].d, KeyPairs[k].n)>>

\* rsa.VerifyPKCS1v15(publicKey, crypto.SHA256, hash[:], signatureBytes)
\* returns nil.
VerifyPKCS1v15(k, hashed, sig) ==
    /\ Len(sig) = 1
    /\ sig[1] < KeyPairs[k].n
    /\ ModExp(sig[1], KeyPairs[k].e, KeyPairs[k].n) = EncodedMessage(hashed)

\* The alphabet of base64.StdEncoding.
StdAlphabet ==
    <<"A", "B", "C", "D", "E", "F", "G", "H", "I", "J", "K", "L", "M", "N",
      "O", "P", "Q", "R", "S", "T", "U", "V", "W", "X", "Y", "Z", "a", "b",
      "c", "d", "e", "f", "g", "h", "i", "j", "k", "l", "m", "n", "o", "p",
      "q", "r", "s", "t", "u", "v", "w", "x", "y", "z", "0", "1", "2", "3",
      "4", "5", "6", "7", "8", "9", "+", "/">>

StdChars == {StdAlphabet[i] : i \in 1..Len(StdAlphabet)}

Enc(v) == StdAlphabet[v + 1]

Dec(c) == (CHOOSE i \in 1..Len(StdAlphabet) : StdAlphabet[i] = c) - 1

\* base64.StdEncoding.EncodeToString(bytes).
RECURSIVE EncodeToString(_)
EncodeToString(b) ==
    IF b = << >> THEN << >>
    ELSE IF Len(b) = 1
         THEN <<Enc(b[1] \div 4), Enc((b[1] % 4) * 16), "=", "=">>
    ELSE IF Len(b) = 2
         THEN <<Enc(b[1] \div 4), Enc((b[1] % 4) * 16 + b[2] \div 16),
                Enc((b[2] % 16) * 4), "=">>
    ELSE <<Enc(b[1] \div 4), Enc((b[1] % 4) * 16 + b[2] \div 16),
           Enc((b[2] % 16) * 4 + b[3] \div 64), Enc(b[3] % 64)>>
         \o EncodeToString(SubSeq(b, 4, Len(b)))

DecodeError == [bytes |-> << >>, ok |-> FALSE]

\* The quanta of a string without line breaks.  The bits of the last
\* character that belong to no byte are dropped without a check.
RECURSIVE DecodeQuanta(_)
DecodeQuanta(t) ==
    IF t = << >> THEN [bytes |-> << >>, ok |-> TRUE]
    ELSE IF Len(t) < 4 THEN DecodeError
    ELSE IF \A i \in 1..4 : t[i] \in StdChars
         THEN LET rest == DecodeQuanta(SubSeq(t, 5, Len(t)))
              IN  IF rest.ok
                  THEN [bytes |->
                           <<Dec(t[1]) * 4 + Dec(t[2]) \div 16,
                             (Dec(t[2]) % 16) * 16 + Dec(t[3]) \div 4,
                             (Dec(t[3]) % 4) * 64 + Dec(t[4])>> \o rest.bytes,
                        ok |-> TRUE]
                  ELSE DecodeError
    ELSE IF /\ Len(t) = 4 /\ t[1] \in StdChars /\ t[2] \in StdChars
            /\ t[3] = "=" /\ t[4] = "="
         THEN [bytes |-> <<Dec(t[1]) * 4 + Dec(t[2]) \div 16>>, ok |-> TRUE]
    ELSE IF /\ Len(t) = 4 /\ t[1] \in StdChars /\ t[2] \in StdChars
            /\ t[3] \in StdChars /\ t[4] = "="
         THEN [bytes |-> <<Dec(t[1]) * 4 + Dec(t[2]) \div 16,
                           (Dec(t[2]) % 16) * 16 + Dec(t[3]) \div 4>>,
               ok |-> TRUE]
    ELSE DecodeError

NotLineBreak(c) == c \notin {"\n", "\r"}

\* base64.StdEncoding.DecodeString(signature): line breaks are skipped.
DecodeString(s) == DecodeQuanta(SelectSeq(s, NotLineBreak))

\* A faulty RSASigner.Sign: the missing private key is reported as an error.
RSASignNoKeyError(params, iter, rsaFails) ==
    IF ~sgEnabled THEN [sig |-> << >>, err |-> "nil"]
    ELSE [sig |-> << >>, err |-> "no private key"]

\* RSASigner.Sign(params).  rsaFails: rsa.SignPKCS1v15 returns an error.
RSASign(params, iter, rsaFails) ==
    IF ~sgEnabled \/ sgPrivateKey = NoKey
    THEN [sig |-> << >>, err |-> "nil"]
    ELSE LET content == buildSortedJSON(params, iter)
         IN  IF content.err # "nil"
             THEN [sig |-> << >>, err |-> content.err]
             ELSE IF rsaFails
             THEN [sig |-> << >>, err |-> "rsa: signing failed"]
             ELSE [sig |-> EncodeToString(
                               SignPKCS1v15(sgPrivateKey, Sha256(content.bytes))),
                   err |-> "nil"]

\* A faulty RSASigner.Verify: a signature that does not verify is reported
\* without an error.
RSAVerifySilent(params, iter, signature) ==
    IF ~sgEnabled \/ sgPublicKey = NoKey THEN [ok |-> TRUE, err |-> "nil"]
    ELSE IF signature = << >> THEN [ok |-> FALSE, err |-> "missing signature"]
    ELSE [ok |-> FALSE, err |-> "nil"]

\* A faulty RSASigner.Verify: without a public key nothing verifies.
RSAVerifyNeedsKey(params, iter, signature) ==
    IF ~sgEnabled THEN [ok |-> TRUE, err |-> "nil"]
    ELSE [ok |-> FALSE, err |-> "no public key"]

\* RSASigner.Verify(params, signature).
RSAVerify(params, iter, signature) ==
    IF ~sgEnabled \/ sgPublicKey = NoKey THEN [ok |-> TRUE, err |-> "nil"]
    ELSE IF signature = << >>
    THEN [ok |-> FALSE, err |-> "missing signature"]
    ELSE LET content == buildSortedJSON(params, iter)
             decoded == DecodeString(signature)
         IN  IF content.err # "nil" THEN [ok |-> FALSE, err |-> content.err]
             ELSE IF ~decoded.ok
             THEN [ok |-> FALSE, err |-> "illegal base64 data"]
             ELSE IF ~VerifyPKCS1v15(sgPublicKey, Sha256(content.bytes),
                                     decoded.bytes)
             THEN [ok |-> FALSE, err |-> "crypto/rsa: verification error"]
             ELSE [ok |-> TRUE, err |-> "nil"]

\* params := map[string]interface{}{"hostname": hostname, "timestamp": timestamp}
SignedParams(hostname, timestamp) ==
    (HostnameKey :> VString(hostname)) @@ (TimestampKey :> VInt64(timestamp))

NoArgs == <<"none">>

NoVerifyArgs == [call |-> "none", params |-> << >>, signature |-> << >>]

NoSignRet == [sig |-> << >>, ts |-> 0, err |-> "none"]

NoVerifyRet == [ok |-> FALSE, err |-> "none"]

InitSign ==
    /\ sgEnabled = FALSE
    /\ sgPrivateKey = NoKey
    /\ sgPublicKey = NoKey
    /\ signArgs = NoArgs
    /\ signParams = NoArgs
    /\ signRet = NoSignRet
    /\ verifyArgs = NoVerifyArgs
    /\ verifyRet = NoVerifyRet

\* NewRSAMessageSigner(privateKeyPath, publicKeyPath, enabled): each key is
\* loaded when its file holds one, and left nil otherwise.
SignInputs ==
    /\ sgEnabled \in BOOLEAN
    /\ sgPrivateKey \in Keys \cup {NoKey}
    /\ sgPublicKey \in Keys \cup {NoKey}
    /\ signArgs = NoArgs
    /\ signParams = NoArgs
    /\ signRet = NoSignRet
    /\ verifyArgs = NoVerifyArgs
    /\ verifyRet = NoVerifyRet

\* A faulty RSAMessageSigner.Sign: the clock is read again for the
\* returned timestamp.
CallSignReadClockTwice(hostname, now, rsaFails) ==
    /\ signRet = NoSignRet
    /\ signArgs' = <<hostname>>
    /\ IF ~sgEnabled
       THEN /\ signRet' = [sig |-> << >>, ts |-> 0, err |-> "nil"]
            /\ UNCHANGED signParams
       ELSE \E iter \in Perms({HostnameKey, TimestampKey}) :
              LET params == SignedParams(hostname, now)
                  r == RSASign(params, iter, rsaFails)
              IN  /\ signParams' = params
                  /\ signRet' =
                        IF r.err # "nil"
                        THEN [sig |-> << >>, ts |-> 0, err |-> r.err]
                        ELSE IF r.sig = << >>
                        THEN [sig |-> << >>, ts |-> 0, err |-> "nil"]
                        ELSE [sig |-> r.sig, ts |-> now + 1, err |-> "nil"]
    /\ UNCHANGED <<sgEnabled, sgPrivateKey, sgPublicKey, verifyArgs, verifyRet>>
    /\ UNCHANGED nonSignVars

\* RSAMessageSigner.Sign(hostname); now is what time.Now().Unix() returns.
CallSign(hostname, now, rsaFails) ==
    /\ signRet = NoSignRet
    /\ signArgs' = <<hostname>>
    /\ IF ~sgEnabled
       THEN /\ signRet' = [sig |-> << >>, ts |-> 0, err |-> "nil"]
            /\ UNCHANGED signParams
       ELSE \E iter \in Perms({HostnameKey, TimestampKey}) :
              LET params == SignedParams(hostname, now)
                  r == RSASign(params, iter, rsaFails)
              IN  /\ signParams' = params
                  /\ signRet' =
                        IF r.err # "nil"
                        THEN [sig |-> << >>, ts |-> 0, err |-> r.err]
                        ELSE IF r.sig = << >>
                        THEN [sig |-> << >>, ts |-> 0, err |-> "nil"]
                        ELSE [sig |-> r.sig, ts |-> now, err |-> "nil"]
    /\ UNCHANGED <<sgEnabled, sgPrivateKey, sgPublicKey, verifyArgs, verifyRet>>
    /\ UNCHANGED nonSignVars

\* The string with the character at position i replaced by c.
ReplaceAt(s, i, c) == [s EXCEPT ![i] = c]

\* The character whose value is that of c plus delta.
Shifted(c, delta) == Enc((Dec(c) + delta) % 64)

\* Altered copies of a signature returned by Sign: one character replaced
\* by another one of the alphabet or by an illegal one, a line break
\* appended, and the padding cut short.
Alterations(s) ==
    {ReplaceAt(s, i, Shifted(s[i], delta)) : i \in {1, 2}, delta \in {1, 16}}
    \cup {ReplaceAt(s, 1, "-"), s \o <<"\n">>, SubSeq(s, 1, Len(s) - 1)}

\* The signatures Verify is called with.
Signatures ==
    {<< >>, <<"-">>}
    \cup (IF signRet.sig = << >> THEN {}
          ELSE {signRet.sig} \cup Alterations(signRet.sig))

\* RSAMessageSigner.Verify(hostname, signature, timestamp).
CallVerify(hostname, signature, timestamp) ==
    /\ verifyRet = NoVerifyRet
    /\ verifyArgs' = [call |-> "RSAMessageSigner.Verify",
                       params |-> SignedParams(hostname, timestamp),
                       signature |-> signature]
    /\ \E iter \in Perms({HostnameKey, TimestampKey}) :
          verifyRet' = RSAVerify(SignedParams(hostname, timestamp), iter,
                                 signature)
    /\ UNCHANGED <<sgEnabled, sgPrivateKey, sgPublicKey, signArgs, signParams,
                   signRet>>
    /\ UNCHANGED nonSignVars

\* RSASigner.Verify(params, signature) on a parameter set of any shape.
CallRSAVerify(params, signature) ==
    /\ verifyRet = NoVerifyRet
    /\ verifyArgs' = [call |-> "RSASigner.Verify", params |-> params,
                       signature |-> signature]
    /\ \E iter \in Perms(DOMAIN params) :
          verifyRet' = RSAVerify(params, iter, signature)
    /\ UNCHANGED <<sgEnabled, sgPrivateKey, sgPublicKey, signArgs, signParams,
                   signRet>>
    /\ UNCHANGED nonSignVars

NextSign ==
    \/ \E hostname \in Hostnames, now \in Times, rsaFails \in BOOLEAN :
          CallSign(hostname, now, rsaFails)
    \/ \E hostname \in Hostnames, signature \in Signatures,
          timestamp \in 0..MaxTime :
          CallVerify(hostname, signature, timestamp)
    \/ \E params \in ParamSets, signature \in Signatures :
          CallRSAVerify(params, signature)

\* ------------------------------------------------------------------------
\* Specifications
\* ------------------------------------------------------------------------

Init ==
    /\ InitPool /\ InitBus /\ InitOps /\ InitConsumer /\ InitAuth /\ InitRun
    /\ InitExec /\ InitSign /\ InitCanon

SpecPool == Init /\ [][NextPool]_vars

SpecPoolOrder == Init /\ [][NextPoolOrder]_vars

\* The sizes of Test_WorkerPool_Border.
BorderSizes == {0, 1}

\* Pools built with a border size.
InitPoolBorder ==
    /\ \E n \in BorderSizes : NewWorkerPool(n)
    /\ InitBus /\ InitOps /\ InitConsumer /\ InitAuth /\ InitRun
    /\ InitExec /\ InitSign /\ InitCanon

SpecPoolBorder == InitPoolBorder /\ [][NextPool]_vars

\* Number of tasks the workers take out of a full queue.
MaxDrained == 2

\* A started pool whose queue holds QueueCap tasks of earlier Submit calls
\* (numbered below zero) that no worker has taken yet.
StartedFull ==
    /\ wpRunning = TRUE
    /\ taskQueue = [i \in 1..QueueCap |-> -i]
    /\ queueClosed = FALSE
    /\ wgCount = maxWorkers
    /\ wpc = [w \in Workers |-> "check"]
    /\ wtask = [w \in Workers |-> NoTask]
    /\ executing = {}
    /\ done = {}
    /\ spc = [t \in Tasks |-> "idle"]
    /\ afterStop = [t \in Tasks |-> FALSE]
    /\ mainPc = "started"
    /\ queuedAtStop = {}
    /\ crashed = FALSE
    /\ nWorkers = maxWorkers
    /\ priorSent = [t \in Tasks |-> {}]
    /\ runningAtStop = {}

InitPoolFull ==
    /\ StartedFull
    /\ InitBus /\ InitOps /\ InitConsumer /\ InitAuth /\ InitRun
    /\ InitExec /\ InitSign /\ InitCanon

\* Submit calls on the full queue, workers that take up to MaxDrained tasks
\* out of it, and Stop.
NextPoolFull ==
    \/ PoolStopFlag
    \/ PoolStopClose
    \/ PoolStopWait
    \/ \E t \in Tasks : SubmitCheck(t)
    \/ \E t \in Tasks : SubmitSend(t)
    \/ \E w \in Workers : WorkerCheck(w)
    \/ \E w \in Workers :
          /\ Len(taskQueue) > QueueCap - MaxDrained
          /\ WorkerRecv(w)
    \/ \E w \in Workers : TaskReturn(w)
    \/ \E w \in Workers : TaskPanic(w)

SpecPoolFull == InitPoolFull /\ [][NextPoolFull]_vars

SpecBus == Init /\ [][NextBus]_vars

\* The client as the Agent drives it: one Start call, the binding of one
\* queue, and the callers of Publish and DeclareExchange.
NextBusOps ==
    \/ CMStart(<<"start", 1>>)
    \/ \E p \in Callers : ConnectLock(p)
    \/ \E p \in Callers : ConnectDialFail(p)
    \/ \E p \in Callers : \E closeFails \in BOOLEAN :
          ConnectChannelFail(p, closeFails)
    \/ \E p \in Callers : ConnectSuccess(p)
    \/ \E c \in Conns : ConnLost(c)
    \/ \E p \in Callers : NotifyClear(p)
    \/ \E p \in Callers : NotifyCheck(p)
    \/ \E p \in Callers : scheduleReconnect(p)
    \/ \E p \in Callers : TimerFire(p)
    \/ CMStopFlag
    \/ CMStopCloseChannel
    \/ CMStopCloseConn
    \/ \E e \in Exchanges, h \in Handlers : BindQueue("q1", e, "k1", h)
    \/ \E e \in ResultExchanges, k \in ResultKeys, m \in Bodies : Publish(e, k, m)
    \/ \E e \in Exchanges \cup ResultExchanges : DeclareExchange(e)

SpecBusOps == Init /\ [][NextBusOps]_vars

SpecConsumer == Init /\ [][NextConsumer]_vars

SpecRun == Init /\ [][NextRun]_vars

\* Execute calls on an Executor built with or without a bus client.
InitExecCalls ==
    /\ InitPool /\ InitBus /\ InitOps /\ InitConsumer /\ InitAuth /\ InitRun
    /\ ExecInputs /\ InitSign /\ InitCanon

SpecExec == InitExecCalls /\ [][NextExec]_vars

\* The authorization functions applied to every drawn input.
InitAuthCalls ==
    /\ InitPool /\ InitBus /\ InitOps /\ InitConsumer /\ AuthInputs /\ InitRun
    /\ InitExec /\ InitSign /\ InitCanon

SpecAuth == InitAuthCalls /\ [][NextAuth]_vars

\* Sign and Verify calls on a signer built from every configuration.
InitSignCalls ==
    /\ InitPool /\ InitBus /\ InitOps /\ InitConsumer /\ InitAuth /\ InitRun
    /\ InitExec /\ SignInputs /\ InitCanon

SpecSign == InitSignCalls /\ [][NextSign]_vars

\* buildSortedJSON applied to every drawn parameter set.
InitCanonCalls ==
    /\ InitPool /\ InitBus /\ InitOps /\ InitConsumer /\ InitAuth /\ InitRun
    /\ InitExec /\ InitSign /\ CanonInputs

SpecCanon == InitCanonCalls /\ [][NextCanon]_vars

\* The agent: each delivery of the command queue is handled by
\* Agent.handleMessage, which submits Execute(msg) to the worker pool, and
\* Agent.Stop stops the pool before it stops the bus client.  Message m is
\* task m.

\* Agent.Start binds the command queue after it has started the pool.
AgentDeliver ==
    /\ mainPc # "new"
    /\ Deliver

\* handleMessage, inside Submit: the test of wp.running.
handleMessageCheck ==
    /\ cpc = "handler"
    /\ curMsg \in Tasks
    /\ SubmitCheck(curMsg)

\* handleMessage, inside Submit: the send on wp.taskQueue.
handleMessageSend ==
    /\ cpc = "handler"
    /\ curMsg \in Tasks
    /\ SubmitSend(curMsg)

\* Submit has returned, and so does handleMessage.
handleMessageReturn ==
    /\ curMsg \in Tasks
    /\ spc[curMsg] \in {"sent", "dropped"}
    /\ HandlerReturn("ok")

\* Agent.Stop, after a.workerPool.Stop() has returned: a.connManager.Stop()
\* closes the channel, which closes the delivery channel of the loop.
AgentStopBus ==
    /\ mainPc = "stopped"
    /\ DeliveryClose

NextAgent ==
    \/ PoolStart
    \/ AgentDeliver
    \/ LoopRecv
    \/ handleMessageCheck
    \/ handleMessageSend
    \/ handleMessageReturn
    \/ LoopAck
    \/ LoopEnd
    \/ PoolStopFlag
    \/ PoolStopClose
    \/ PoolStopWait
    \/ AgentStopBus
    \/ \E w \in Workers : WorkerCheck(w)
    \/ \E w \in Workers : WorkerRecv(w)
    \/ \E w \in Workers : TaskReturn(w)

\* Every goroutine of the agent that can take a step is scheduled.
SpecAgent == Init /\ [][NextAgent]_vars /\ WF_vars(NextAgent)

Next == NextPool \/ NextPoolOrder \/ NextPoolFull \/ NextAgent \/ NextBus \/ NextBusOps \/ NextConsumer \/ NextAuth
            \/ NextRun \/ NextExec \/ NextSign \/ NextCanon

Spec == Init /\ [][Next]_vars

\* ------------------------------------------------------------------------
\* Claims about the worker pool
\* ------------------------------------------------------------------------

\* C1: at every moment after Start() on a pool built with maxWorkers workers,
\* at most maxWorkers submitted tasks are executing concurrently.
C1_ConcurrencyCap ==
    mainPc # "new" => Cardinality(executing) <= maxWorkers

\* C1 witness: every worker is inside a task while another task waits queued.
C1_Witness ==
    /\ Cardinality(executing) = maxWorkers
    /\ Len(taskQueue) > 0

\* C2 (as claimed): when Stop() has returned, every task that was enqueued
\* before Stop() was called has been executed to completion.
C2_StopDrainsQueue ==
    mainPc = "stopped" => queuedAtStop \subseteq done

\* C3 (as claimed): a panic inside a task does not terminate the worker that
\* runs it (nor the pool).
C3_PanicContained ==
    \A w \in Workers : wpc[w] # "panicked"

\* C4: a Submit invoked after Stop() has returned is a no-op: the call
\* returns, the task is not queued and it is never executed.
C4_SubmitAfterStopNoOp ==
    \A t \in Tasks :
        (afterStop[t] /\ spc[t] # "idle") =>
            /\ spc[t] = "dropped"
            /\ \A i \in 1..Len(taskQueue) : taskQueue[i] # t
            /\ t \notin executing \cup done

\* C4 witness: Stop() has returned and a later Submit call has returned.
C4_Witness ==
    /\ mainPc = "stopped"
    /\ \E t \in Tasks : afterStop[t] /\ spc[t] = "dropped"

\* ------------------------------------------------------------------------
\* Claims about the bus client
\* ------------------------------------------------------------------------

\* The client holds a live connection and no call is inside its lock.
Connected == cmConn # Nil /\ cmConn \in chOpen /\ mu = Free

\* A binding <<queue, exchange, key, handler>> is active on connection c.
BindingActive(c, b) ==
    /\ <<c, b[1], b[2], b[3]>> \in bound
    /\ \E x \in consumers : x[1] = c /\ x[2] = b[1] /\ x[3] = b[4]

\* C5 (as claimed): after a connection loss followed by a successful
\* reconnect, every binding registered through BindQueue before the loss is
\* active on the new channel, also when several calls used one queue name.
C5_AllBindingsReplayed ==
    Connected => \A b \in regAtLoss : BindingActive(cmConn, b)

\* C6 (as claimed): each registered binding (an entry of cm.messageHandlers,
\* one per queue name) has at most one active consumption loop, and no
\* consumer created on a prior connection is still active.
C6_NoDuplicateConsumers ==
    /\ \A x \in consumers : x[4] = 1
    /\ cmConn # Nil => \A x \in consumers : x[1] = cmConn

\* C7 (as claimed): a connect invoked while another connect attempt is in
\* progress is a no-op: it never gets to dial.
C7_ConcurrentConnectNoOp ==
    \A p \in overlapped : pc[p] # "dial"

\* C8 (as claimed): once Stop() has returned, no connect attempt is started
\* and no new connection or channel is installed in the client.
C8_NoConnectAfterStop ==
    [][stopPc = "returned" =>
          /\ \A p \in Callers : pc'[p] = "connect" => pc[p] = "connect"
          /\ cmConn' \in {cmConn, Nil}
          /\ cmCh' \in {cmCh, Nil}]_vars

\* Some goroutine is on its way to a connect attempt.
RetryPending ==
    \E p \in Callers :
        \/ pc[p] \in {"connect", "dial", "sched", "timer", "check"}
        \/ p[1] = "notify" /\ pc[p] = "wait" /\ p[2] \notin connOpen

\* C9 (as claimed): while the client is marked running and holds no open
\* connection, another connect attempt is on its way: the retry chain does
\* not end by itself.
C9_RetryChainNeverEnds ==
    (cmRunning /\ (cmConn = Nil \/ cmConn \notin connOpen))
        => RetryPending

\* C10 (as claimed): after Stop() has returned, whatever the closes reported,
\* Stop no longer holds the client's mutex.
C10_StopReleasesMutex ==
    stopPc = "returned" => mu # StopCaller

\* ------------------------------------------------------------------------
\* Publish, DeclareExchange and BindQueue without a live channel
\* ------------------------------------------------------------------------

\* The client's own fields, which a failing call must leave as they were.
clientState == <<cmRunning, cmConn, cmCh, mu, reconnecting, messageHandlers, pc>>

\* C11: a Publish or DeclareExchange call that finds no live channel (cm.ch
\* nil, or a channel the library has closed) returns an error, hands nothing
\* to the bus, declares nothing and leaves the client's fields unchanged; and
\* nothing reaches the bus later on its behalf: the bus receives a message or
\* a declaration only in the step of a call that found a live channel.
C11_NoChannelCallFails ==
    [][ /\ (nCalls' = nCalls + 1 /\ ChState # "live")
            => /\ lastOp'.op \in {"Publish", "DeclareExchange"}
               /\ lastOp'.err
               /\ busPublished' = busPublished
               /\ declared' = declared
               /\ clientState' = clientState
               /\ UNCHANGED <<connOpen, chOpen, bound, consumers>>
        /\ (busPublished' # busPublished \/ declared' # declared)
            => (nCalls' = nCalls + 1 /\ ChState = "live")
      ]_vars

\* A Publish call on a started client that had lost its channel returned an
\* error.
C11_Witness ==
    /\ lastOp.op = "Publish"
    /\ lastOp.ch = "nil"
    /\ lastOp.err
    /\ cmRunning
    /\ busPublished = << >>

\* C12: a BindQueue call made while the client is disconnected returns an
\* error.
C12_BindWhileDisconnectedFails ==
    (lastOp.op = "BindQueue" /\ lastOp.ch # "live") => lastOp.err

\* C12, amended: a BindQueue call that finds cm.ch == nil stores the binding
\* in cm.messageHandlers, touches nothing on the bus and returns nil; one that
\* finds a stored channel the library has closed returns an error.
C12_BindWhileDisconnected ==
    [][ (nBinds' = nBinds + 1)
            => /\ lastOp'.op = "BindQueue"
               /\ (ChState = "nil")
                    => /\ ~lastOp'.err
                       /\ messageHandlers'["q1"] # NoBinding
                       /\ UNCHANGED <<bound, consumers, busPublished, declared>>
               /\ (ChState = "stale")
                    => /\ lastOp'.err
                       /\ UNCHANGED <<bound, consumers, busPublished, declared>>
      ]_vars

\* A BindQueue call on a started client that had no channel returned nil and
\* left its binding in the registry.
C12_Witness ==
    /\ lastOp.op = "BindQueue"
    /\ lastOp.ch = "nil"
    /\ ~lastOp.err
    /\ cmRunning
    /\ messageHandlers["q1"] # NoBinding
    /\ bound = {}

\* ------------------------------------------------------------------------
\* Order of handler and ack in a consumption loop
\* ------------------------------------------------------------------------

EventIdx == 1..Len(events)

\* The messages of the events of kind k, in the order of the events.
MsgsOf(k) ==
    LET F[i \in 0..Len(events)] ==
            IF i = 0 THEN << >>
            ELSE IF events[i][1] = k THEN Append(F[i - 1], events[i][2])
                 ELSE F[i - 1]
    IN F[Len(events)]

\* C13: in one consumption loop, (a) an ack is sent for a message only after
\* the handler was called with it and returned; (b) the handler is called for
\* a message only after every message handled before it was acknowledged;
\* (c) the acks follow the delivery order 1, 2, 3, ...; (d) once the handler
\* returned, whatever its outcome, the loop's next step is the ack of that
\* message.
C13_AckAfterHandlerInOrder ==
    /\ \A i \in EventIdx : events[i][1] = "ack" =>
          /\ i >= 3
          /\ events[i - 1][1] = "return" /\ events[i - 1][2] = events[i][2]
          /\ events[i - 2][1] = "handler" /\ events[i - 2][2] = events[i][2]
    /\ \A i \in EventIdx : events[i][1] = "handler" =>
          \A j \in 1..(i - 1) : events[j][1] = "handler" =>
              \E a \in (j + 1)..(i - 1) :
                  events[a] = <<"ack", events[j][2], "ok">>
    /\ \A n \in 1..Len(MsgsOf("ack")) : MsgsOf("ack")[n] = n
    /\ \A i \in EventIdx : events[i][1] = "return" =>
          IF i = Len(events) THEN cpc = "ack" /\ curMsg = events[i][2]
          ELSE events[i + 1][1] = "ack" /\ events[i + 1][2] = events[i][2]

\* Two messages were handled and acknowledged, the first after its handler
\* failed.
C13_Witness ==
    /\ Len(events) >= 6
    /\ events[2] = <<"return", 1, "failed">>
    /\ events[3] = <<"ack", 1, "ok">>
    /\ events[6] = <<"ack", 2, "ok">>

\* ------------------------------------------------------------------------
\* Execute: rejection, result publication, task_id
\* ------------------------------------------------------------------------

\* The payload is a JSON object whose task_id and command are strings or
\* absent.
Parses(payload) ==
    /\ payload.syntax = "object"
    /\ payload.task_id[1] \in {"absent", "string"}
    /\ payload.command[1] \in {"absent", "string"}

\* The command line the payload carries, empty when it carries none.
CommandOf(payload) ==
    IF payload.command[1] = "string" THEN payload.command[2] ELSE << >>

\* The task_id the payload carries, empty when it carries none.
TaskIdOf(payload) ==
    IF payload.task_id[1] = "string" THEN payload.task_id[2] ELSE ""

Accepted(payload) ==
    Parses(payload) /\ isCommandAllowedInternal(CommandOf(payload), ExecAllowed)

\* The positions in attempts of the Publish calls made by Execute call e.
AttemptsBy(e) == {i \in 1..Len(attempts) : attempts[i].exec = e}

\* C14: an Execute call whose payload does not parse or whose command is
\* rejected has returned an error as soon as it has taken its first step, has
\* never called runCommand and has made no Publish call.
C14_RejectedIsTerminal ==
    \A e \in Execs :
        (ex[e].pc # "idle" /\ ~Accepted(ex[e].payload))
            => /\ ex[e].pc = "returned"
               /\ ex[e].ret = "error"
               /\ ex[e].runCalls = 0
               /\ AttemptsBy(e) = {}

\* One call returned an error for bytes that are no JSON, the other for the
\* dangerous command "dd", and nothing was published.
C14_Witness ==
    /\ ex[1].pc = "returned" /\ ex[1].payload.syntax = "invalid"
    /\ ex[1].ret = "error"
    /\ ex[2].pc = "returned" /\ ex[2].payload.command = JStr(<<"d", "d">>)
    /\ ex[2].payload.task_id = JStr("t1")
    /\ ex[2].ret = "error"
    /\ attempts = << >>

\* C15: with a bus client, an Execute call whose payload parses and whose
\* command is authorized has, when it returns, made exactly one Publish call,
\* on sys_result_exchange with routing key result.node.<hostname>, whatever
\* runCommand returned; and no call ever makes more than one.
C15_ExactlyOnePublish ==
    execClient =>
        \A e \in Execs :
            /\ Cardinality(AttemptsBy(e)) <= 1
            /\ (ex[e].pc = "returned" /\ Accepted(ex[e].payload))
                => /\ Cardinality(AttemptsBy(e)) = 1
                   /\ \A i \in AttemptsBy(e) :
                        /\ attempts[i].exchange = "sys_result_exchange"
                        /\ attempts[i].routingKey = <<"result.node.", Hostname>>
                        /\ attempts[i].body.exit_code = JNum(ex[e].rc.code)

\* Both calls returned after one Publish call each: one whose process failed
\* to start, one whose process timed out; the first Publish call failed.
C15_Witness ==
    /\ execClient
    /\ ex[1].pc = "returned" /\ ex[1].rc.err = "start" /\ ex[1].rc.code = -1
    /\ ex[2].pc = "returned" /\ ex[2].rc.code = -2
    /\ Len(attempts) = 2
    /\ ~attempts[1].ok

\* C16: every result handed to Publish carries the task_id of the payload of
\* the Execute call that sent it, and no call sends two results, with the
\* calls interleaved in every way.
C16_ResultCarriesTaskId ==
    /\ \A i \in 1..Len(attempts) :
          attempts[i].body.task_id = JStr(TaskIdOf(ex[attempts[i].exec].payload))
    /\ \A i, j \in 1..Len(attempts) :
          attempts[i].exec = attempts[j].exec => i = j

\* Call 2 published the result of task t2 while call 1, which carries task
\* t1, was between runCommand and sendResult.
C16_Witness ==
    /\ ex[1].pc = "ran" /\ ex[1].cmdMsg.TaskID = "t1"
    /\ ex[2].pc = "returned"
    /\ Len(attempts) = 1
    /\ attempts[1].exec = 2
    /\ attempts[1].body.task_id = JStr("t2")

\* ------------------------------------------------------------------------
\* Command authorization
\* ------------------------------------------------------------------------

\* The tokens of a command line, said without strings.Fields: a token is a
\* maximal run of characters that are not white space.
TokenStarts(s) ==
    {a \in 1..Len(s) : ~IsSpace(s[a]) /\ (a = 1 \/ IsSpace(s[a - 1]))}

TokenEnd(s, a) ==
    CHOOSE b \in a..Len(s) :
        /\ \A i \in a..b : ~IsSpace(s[i])
        /\ (b = Len(s) \/ IsSpace(s[b + 1]))

Tokens(s) ==
    LET starts == TokenStarts(s) IN
    [n \in 1..Cardinality(starts) |->
        LET a == CHOOSE x \in starts : Cardinality({y \in starts : y < x}) = n - 1
        IN SubSeq(s, a, TokenEnd(s, a))]

StartsWith(tok, c) == Len(tok) >= 1 /\ tok[1] = c

\* C17: isCommandAllowed returns false for every empty or white-space-only
\* command line and for every command line whose first token has no
\* allow-list entry as a prefix.
C17_UnlistedRejected ==
    LET toks == Tokens(cmdLine) IN
    (\/ Len(toks) = 0
     \/ \A i \in 1..Len(cfgCommands) :
            \/ Len(cfgCommands[i]) > Len(toks[1])
            \/ \E j \in 1..Len(cfgCommands[i]) : cfgCommands[i][j] # toks[1][j])
    => /\ retInternal \in {"none", "false"}
       /\ retRoot \in {"none", "false"}

\* The command line "-d /d", whose first token contains the allow-list entry
\* "d" without starting with it, was refused.
C17_Witness ==
    /\ cmdLine = <<"-", "d", " ", "/", "d">>
    /\ cfgCommands = << <<"d">> >>
    /\ retInternal = "false"
    /\ retRoot = "false"

\* The first token of the command line starts with an entry of
\* dangerousCommands.
FirstTokenDangerous ==
    LET toks == Tokens(cmdLine) IN
    /\ Len(toks) >= 1
    /\ \E i \in 1..Len(dangerousCommands) :
          LET d == dangerousCommands[i] IN
          Len(d) <= Len(toks[1]) /\ \A j \in 1..Len(d) : toks[1][j] = d[j]

\* C18: isCommandAllowed returns false for every command line whose first
\* token starts with a dangerous command, whatever the allow-list holds.
C18_DangerousRejected ==
    FirstTokenDangerous
        => /\ retInternal \in {"none", "false"}
           /\ retRoot \in {"none", "false"}

\* The command line "ddd d", listed by the allow-list entry "d" and by the
\* entry "dd", was refused by both functions.
C18_Witness ==
    /\ cmdLine = <<"d", "d", "d", " ", "d">>
    /\ cfgCommands = << <<"d", "d">>, <<"/">> >>
    /\ retInternal = "false"
    /\ retRoot = "false"

\* The claim's own test: a path token is inside a directory when, one
\* trailing slash stripped from both, it equals the directory or starts with
\* the directory followed by "/".
StripSlash(x) ==
    IF Len(x) >= 1 /\ x[Len(x)] = "/" THEN SubSeq(x, 1, Len(x) - 1) ELSE x

Inside(tok, dir) ==
    LET t == StripSlash(tok)
        d == StripSlash(dir)
    IN \/ t = d
       \/ /\ Len(t) >= Len(d) + 1
          /\ \A j \in 1..Len(d) : t[j] = d[j]
          /\ t[Len(d) + 1] = "/"

InsideSome(tok) == \E i \in 1..Len(cfgDirs) : Inside(tok, cfgDirs[i])

\* The positions of the path tokens: not the first token, starting with "/".
PathPositions(toks) == {i \in 2..Len(toks) : StartsWith(toks[i], "/")}

\* The command line built from the tokens but the one at position i.
WithoutToken(toks, i) ==
    LET kept == [n \in 1..(Len(toks) - 1) |-> IF n < i THEN toks[n] ELSE toks[n + 1]]
        J[n \in 0..Len(kept)] ==
            IF n = 0 THEN << >>
            ELSE IF n = 1 THEN kept[1]
            ELSE J[n - 1] \o <<" ">> \o kept[n]
    IN J[Len(kept)]

\* C19: (a) authorization is refused when some path token lies outside every
\* allowed directory; (b) isDirectoryAllowed holds of a path token exactly
\* when the token is inside an allowed directory by the claim's test; (c) a
\* path token inside an allowed directory does not change the result: the
\* command line without it is authorized exactly when the whole line is.
C19_PathsConfined ==
    LET toks == Tokens(cmdLine) IN
    /\ (\E i \in PathPositions(toks) : ~InsideSome(toks[i]))
          => retRoot \in {"none", "false"}
    /\ \A i \in PathPositions(toks) :
          isDirectoryAllowed(toks[i], cfgDirs) <=> InsideSome(toks[i])
    /\ \A i \in PathPositions(toks) :
          (retRoot # "none" /\ InsideSome(toks[i]))
            => retRoot = ToRet(isCommandAllowed(WithoutToken(toks, i),
                                                cfgCommands, cfgDirs))

\* The command line "d /dd", whose path starts with the allowed directory
\* "/d" without being inside it, was refused; the internal function, which
\* has no directory test, accepted it.
C19_Witness ==
    /\ cmdLine = <<"d", " ", "/", "d", "d">>
    /\ cfgCommands = << <<"d">> >>
    /\ cfgDirs = << <<"/", "d">> >>
    /\ retRoot = "false"
    /\ retInternal = "true"

\* ------------------------------------------------------------------------
\* runCommand on time-out
\* ------------------------------------------------------------------------

\* C20: when the timer has elapsed and no completion can be received from
\* done, the select can only take the timer's branch; on that branch
\* runCommand calls Kill, after which the process is no longer running, and
\* returns exit code -2, the captured stdout, the captured stderr followed by
\* the time-out text, and a nil error.  No other path returns -2.
C20_TimeoutResult ==
    [][ /\ (rpc = "select" /\ timerFired /\ doneCh = << >> /\ rpc' # rpc)
            => rpc' = "kill"
        /\ (rpc = "kill" /\ rpc' # rpc)
            => /\ rpc' = "timeoutReturn"
               /\ killCalled'
               /\ proc' # "running"
        /\ (rpc = "timeoutReturn" /\ rpc' # rpc)
            => /\ rpc' = "returned"
               /\ killCalled
               /\ runRet' = [code |-> -2,
                             stdout |-> stdoutBuf,
                             stderr |-> stderrBuf \o <<TimedOutText>>,
                             err |-> "nil"]
        /\ (rpc' = "returned" /\ runRet'.code = -2)
            => killCalled' /\ proc' # "running"
      ]_vars

\* runCommand returned on the timer's branch after it killed a running
\* process that had written to both streams.
C20_Witness ==
    /\ rpc = "returned"
    /\ runRet.code = -2
    /\ runRet.err = "nil"
    /\ proc = "killed"
    /\ runRet.stdout # << >>
    /\ Len(runRet.stderr) = 2
    /\ runRet.stderr[2] = TimedOutText

\* ------------------------------------------------------------------------
\* runCommand on a failing command
\* ------------------------------------------------------------------------

\* C21: while the timer has not elapsed the select can only take the case of
\* done; when it does so for a process that exited with a non-zero status,
\* runCommand returns that status (which is neither 0 nor -2), everything the
\* process wrote on stdout and stderr, and a nil error; and whatever path it
\* returns by, a non-nil error comes with exit code -1 only.
C21_NonZeroExit ==
    [][ /\ (rpc = "select" /\ ~timerFired /\ rpc' # rpc) => rpc' = "returned"
        /\ (rpc = "select" /\ rpc' = "returned" /\ proc = "exited"
              /\ procStatus # 0)
            => /\ runRet' = [code |-> procStatus, stdout |-> stdoutBuf,
                             stderr |-> stderrBuf, err |-> "nil"]
               /\ runRet'.code \notin {0, -2}
               /\ pipeOut = << >> /\ pipeErr = << >>
               /\ Len(stdoutBuf) + Len(stderrBuf) = nChunks
        /\ (rpc' = "returned" /\ runRet'.err # "nil") => runRet'.code = -1
      ]_vars

\* runCommand returned status 1 and the two chunks the process wrote, before
\* the timer elapsed.
C21_Witness ==
    /\ rpc = "returned"
    /\ ~timerFired
    /\ proc = "exited" /\ procStatus = 1
    /\ runRet.code = 1
    /\ runRet.err = "nil"
    /\ Len(runRet.stdout) = 1 /\ Len(runRet.stderr) = 1

\* ------------------------------------------------------------------------
\* Message signer
\* ------------------------------------------------------------------------

\* Sign returned a signature without an error.
Signed == signRet.err = "nil" /\ signRet.sig # << >>

\* Verify of RSAMessageSigner has returned.
Verified == verifyArgs.call = "RSAMessageSigner.Verify"

\* The hostname and the timestamp Verify was called with.
VerifiedHostname == verifyArgs.params[HostnameKey][2]

VerifiedTimestamp == verifyArgs.params[TimestampKey][2]

\* C22: with signing enabled and both keys of one key pair loaded, Sign
\* returns a signature, and Verify applied to the hostname given to Sign and
\* to the signature and the timestamp Sign returned yields (true, nil).
C22_RoundTrip ==
    (/\ sgEnabled /\ sgPrivateKey # NoKey /\ sgPublicKey = sgPrivateKey
     /\ signRet.err = "nil")
        => /\ signRet.sig # << >>
           /\ (/\ Verified
               /\ VerifiedHostname = signArgs[1]
               /\ verifyArgs.signature = signRet.sig
               /\ VerifiedTimestamp = signRet.ts)
                  => verifyRet = [ok |-> TRUE, err |-> "nil"]

\* A round trip on a hostname that holds a quote and a comma.
C22_Witness ==
    /\ sgEnabled /\ sgPrivateKey = "k2" /\ sgPublicKey = "k2"
    /\ Signed /\ Verified
    /\ signArgs[1] = <<"a", "\"", ",">>
    /\ VerifiedHostname = signArgs[1]
    /\ verifyArgs.signature = signRet.sig
    /\ VerifiedTimestamp = signRet.ts
    /\ verifyRet.ok

\* Verify was called with the values of the Sign call except for the hostname.
HostnameChanged ==
    /\ VerifiedHostname # signArgs[1]
    /\ verifyArgs.signature = signRet.sig
    /\ VerifiedTimestamp = signRet.ts

TimestampChanged ==
    /\ VerifiedHostname = signArgs[1]
    /\ verifyArgs.signature = signRet.sig
    /\ VerifiedTimestamp # signRet.ts

SignatureChanged ==
    /\ VerifiedHostname = signArgs[1]
    /\ verifyArgs.signature # signRet.sig
    /\ VerifiedTimestamp = signRet.ts

\* C23: with signing enabled and the public key loaded, a Verify call that
\* differs from the values of the Sign call in the hostname alone, in the
\* timestamp alone or in the signature alone fails.
C23_TamperDetected ==
    (/\ sgEnabled /\ sgPublicKey # NoKey /\ Signed /\ Verified
     /\ (HostnameChanged \/ TimestampChanged \/ SignatureChanged))
        => ~verifyRet.ok

\* C24: whenever Verify returns false it returns an error with it, whenever
\* it returns true the error is nil, and an empty signature given to a signer
\* that is enabled and holds a public key yields false with the error
\* "missing signature".
C24_NoSilentFalse ==
    verifyRet # NoVerifyRet =>
        /\ verifyRet.ok <=> verifyRet.err = "nil"
        /\ (sgEnabled /\ sgPublicKey # NoKey /\ verifyArgs.signature = << >>)
              => verifyRet = [ok |-> FALSE, err |-> "missing signature"]

\* Verify has returned false for a signature that decodes and does not
\* match.
C24_Witness ==
    /\ sgEnabled /\ sgPublicKey # NoKey
    /\ verifyArgs.signature # << >>
    /\ DecodeString(verifyArgs.signature).ok
    /\ ~verifyRet.ok
    /\ verifyRet.err = "crypto/rsa: verification error"

\* C25: when signing is disabled, and when it is enabled without a public
\* key, Verify returns (true, nil) whatever it is given, the empty
\* signature included.
C25_BypassAccepts ==
    (verifyRet # NoVerifyRet /\ (~sgEnabled \/ sgPublicKey = NoKey))
        => verifyRet = [ok |-> TRUE, err |-> "nil"]

\* Signing is enabled, no public key is loaded, and Verify has accepted the
\* empty signature.
C25_Witness ==
    /\ sgEnabled /\ sgPublicKey = NoKey
    /\ Verified /\ verifyArgs.signature = << >>
    /\ verifyRet.ok

\* C26: Sign returns the empty signature, timestamp 0 and no error when
\* signing is disabled or no private key is loaded; a returned signature
\* comes with a timestamp greater than 0, the one of the signed parameters.
C26_SignNoOp ==
    signRet # NoSignRet =>
        /\ (~sgEnabled \/ sgPrivateKey = NoKey)
              => signRet = [sig |-> << >>, ts |-> 0, err |-> "nil"]
        /\ signRet.sig # << >>
              => /\ signRet.ts > 0
                 /\ signParams = SignedParams(signArgs[1], signRet.ts)
                 /\ DecodeString(signRet.sig).bytes =
                       SignPKCS1v15(sgPrivateKey,
                           Sha256(buildSortedJSON(signParams,
                                      <<HostnameKey, TimestampKey>>).bytes))

\* Signing is enabled without a private key and Sign has returned nothing.
C26_Witness ==
    /\ sgEnabled /\ sgPrivateKey = NoKey
    /\ signRet = [sig |-> << >>, ts |-> 0, err |-> "nil"]

\* ------------------------------------------------------------------------
\* Canonical form
\* ------------------------------------------------------------------------

\* The keys between the quotes of a canonical form, in the order written:
\* the keys of the parameter set, ascending.
KeysAscending(keys) ==
    \A i \in 1..Len(keys) - 1 : StrLess(keys[i], keys[i + 1])

\* The canonical form holds the keys in the given order.
RECURSIVE HoldsKeysInOrder(_, _, _)
HoldsKeysInOrder(bytes, keys, from) ==
    IF keys = << >> THEN TRUE
    ELSE LET k == <<"\"">> \o Head(keys) \o <<"\"", ":">>
         IN  \E i \in from..(Len(bytes) - Len(k) + 1) :
                /\ SubSeq(bytes, i, i + Len(k) - 1) = k
                /\ HoldsKeysInOrder(bytes, Tail(keys), i + Len(k))

\* C27: every two buildSortedJSON calls on maps built from the same pairs
\* return the same bytes and the same error, whatever the order in which
\* the pairs were inserted and the order in which the map is iterated, and
\* the bytes hold the keys in ascending byte order.
C27_OrderIndependent ==
    cjCalls # << >> =>
        LET last == cjCalls[Len(cjCalls)].ret
        IN  /\ \A i \in 1..Len(cjCalls) : cjCalls[i].ret = last
            /\ last.err = "nil" =>
                  \E keys \in Perms(DOMAIN cjPairs) :
                      /\ KeysAscending(keys)
                      /\ HoldsKeysInOrder(last.bytes, keys, 1)

\* Two calls on maps of three pairs built and iterated in different orders.
C27_Witness ==
    /\ Len(cjCalls) = 2
    /\ Cardinality(DOMAIN cjPairs) = 3
    /\ cjCalls[1].order # cjCalls[2].order
    /\ cjCalls[1].iter # cjCalls[2].iter
    /\ cjCalls[1].ret.err = "nil"

\* ------------------------------------------------------------------------
\* WorkerPool: order, size zero, full queue
\* ------------------------------------------------------------------------

\* The task waits in the queue.
Queued(t) == \E i \in 1..Len(taskQueue) : taskQueue[i] = t

\* The task was enqueued and a worker has taken it out of the queue.
Dequeued(t) == spc[t] = "sent" /\ ~Queued(t)

\* C28: when the Submit of task a had returned before the Submit of task b
\* began, b is not taken out of the queue (and so does not start) while a
\* still waits in it.
C28_Fifo ==
    \A a, b \in Tasks :
        (a \in priorSent[b] /\ Dequeued(b)) => Dequeued(a)

\* Two tasks submitted one after the other, the first done and the second
\* running.
C28_Witness ==
    \E a, b \in Tasks :
        /\ a \in priorSent[b]
        /\ a \in done
        /\ b \in executing

\* C29: a pool built with size zero has no worker: started, it enqueues what
\* is submitted, and no submitted task ever runs, before or after Stop().
C29_SizeZeroRunsNothing ==
    nWorkers = 0 =>
        /\ executing = {} /\ done = {}
        /\ \A w \in Workers : wpc[w] = "none"
        /\ \A t \in Tasks : spc[t] = "sent" => Queued(t)

\* A pool of size zero that was started and stopped, with a task accepted
\* before Stop() and a Submit made after it.
C29_Witness ==
    /\ nWorkers = 0 /\ mainPc = "stopped"
    /\ \E t \in Tasks : spc[t] = "sent" /\ Queued(t)
    /\ \E t \in Tasks : afterStop[t] /\ spc[t] = "dropped"

\* The Submit call is blocked in its send: the queue is full.
Blocked(t) == spc[t] = "sending" /\ Len(taskQueue) = QueueCap

\* C30 (as claimed): a Submit call blocked on the full queue stays blocked
\* or, once a worker has taken a task or the pool is stopped, returns
\* normally; it never ends in a panic.
C30_BlockedSubmitReturns ==
    [][\A t \in Tasks : Blocked(t) => spc'[t] # "panicked"]_vars

\* ------------------------------------------------------------------------
\* WorkerPool and Stop
\* ------------------------------------------------------------------------

\* The process died while the body of the task was running.
Aborted(t) == crashed /\ t \in executing

\* C31 (as claimed): a task whose body was running when Stop() was called is
\* never cut short, and when Stop() has returned it has completed.
C31_RunningTaskCompletes ==
    \A t \in runningAtStop :
        /\ ~Aborted(t)
        /\ mainPc = "stopped" => t \in done


\* The place of queue q in the order of registration.
RegIndex(q) == CHOOSE i \in 1..Len(regOrder) : regOrder[i] = q

\* C32 (as claimed): a successful connect replays the registered bindings in
\* the order in which BindQueue first registered them.
C32_ReplayInRegistrationOrder ==
    \A i, j \in 1..Len(replayed) :
        i < j => RegIndex(replayed[i]) < RegIndex(replayed[j])

\* C33 (as claimed): a Submit call that runs concurrently with Stop() ends
\* with its task enqueued or dropped; it never sends on the closed task queue.
C33_SubmitNeverSendsOnClosed ==
    \A t \in Tasks : spc[t] \in {"idle", "sending", "sent", "dropped"}

\* C34 (as claimed): connect returns nil only when the client holds an open
\* connection and an open channel; a failed channel creation gives an error.
C34_NilMeansConnected ==
    connectRet.err = "nil" => connectRet.live

\* The close-notification goroutine of connection c handles the notification
\* in this step, while the client's current connection is another, open one.
StaleNotification(c) ==
    /\ pc[<<"notify", c>>] = "wait"
    /\ pc'[<<"notify", c>>] = "check"
    /\ cmConn # Nil
    /\ cmConn # c
    /\ cmConn \in connOpen

\* C39 (as claimed): the close notification of a connection that is no longer
\* the client's current one leaves the current connection and channel
\* handles in place.
C39_StaleNotificationIgnored ==
    [][\A c \in Conns : StaleNotification(c) =>
                            cmConn' = cmConn /\ cmCh' = cmCh]_vars

\* ------------------------------------------------------------------------
\* Command authorization without a directory allow-list
\* ------------------------------------------------------------------------

\* The first token of the command line starts with an allow-list entry.
FirstTokenListed ==
    LET toks == Tokens(cmdLine) IN
    /\ Len(toks) >= 1
    /\ \E i \in 1..Len(cfgCommands) :
          LET a == cfgCommands[i] IN
          Len(a) <= Len(toks[1]) /\ \A j \in 1..Len(a) : toks[1][j] = a[j]

\* C35 (as claimed): with an empty directory allow-list, a command line whose
\* first token is listed and not dangerous is authorized, whatever
\* absolute-path tokens it contains.
C35_NoDirListNoDirCheck ==
    (cfgDirs = << >> /\ FirstTokenListed /\ ~FirstTokenDangerous)
        => /\ retInternal \in {"none", "true"}
           /\ retRoot \in {"none", "true"}

\* ------------------------------------------------------------------------
\* runCommand, the effective timeout
\* ------------------------------------------------------------------------

\* The timeout in seconds the claim gives a call with argument t.
EffectiveTimeout(t) == IF t > 0 THEN t ELSE DefaultTimeout

\* C36: once runCommand has been called its timeout is the argument when the
\* argument is greater than 0 and the configured default otherwise; the
\* select waits on a timer, and every timer created has exactly that many
\* seconds.
C36_TimerArmedWithEffectiveTimeout ==
    /\ rpc # "idle" => rTimeout = EffectiveTimeout(rArg)
    /\ rpc = "select" => timerDur # NoTimer
    /\ timerFired => timerDur # NoTimer
    /\ timerDur # NoTimer => timerDur = EffectiveTimeout(rArg) * Second

\* A call with timeout 0 timed out on a timer of the default 300 seconds.
C36_Witness ==
    /\ rArg = 0
    /\ timerDur = 300 * Second
    /\ timerFired
    /\ rpc = "returned"
    /\ runRet.code = -2

\* ------------------------------------------------------------------------
\* Execute when the result cannot be published
\* ------------------------------------------------------------------------

\* The Publish call of Execute call e failed.
PublishFailed(e) == \E i \in AttemptsBy(e) : ~attempts[i].ok

\* C37: an Execute call whose Publish failed has returned nil to the task
\* that called it, has run the command once and has called Publish once, and
\* the process goes on.
C37_PublishFailureContained ==
    \A e \in Execs :
        PublishFailed(e) =>
            /\ ex[e].pc = "returned"
            /\ ex[e].ret = "nil"
            /\ ex[e].runCalls = 1
            /\ Cardinality(AttemptsBy(e)) = 1
            /\ ~crashed

\* The Publish of call 1 failed and the call returned nil; call 2 then ran
\* its command and published its result.
C37_Witness ==
    /\ Len(attempts) = 2
    /\ attempts[1].exec = 1 /\ ~attempts[1].ok
    /\ attempts[2].exec = 2 /\ attempts[2].ok
    /\ ex[1].ret = "nil"
    /\ ex[2].ret = "nil"

\* ------------------------------------------------------------------------
\* Commands acknowledged and commands executed
\* ------------------------------------------------------------------------

\* The loop called the handler with message m and then sent its ack.
Acked(m) == \E i \in EventIdx : events[i] = <<"ack", m, "ok">>

\* Execute(m) has been called: a worker runs or has run the task of m.
HandedToExecutor(m) == m \in executing \/ m \in done

\* C38 (as claimed): every message whose handler was called and whose ack was
\* sent is eventually handed to the Command Executor.
C38_NoCommandLost ==
    \A m \in Tasks : [](Acked(m) => <>HandedToExecutor(m))

====
